---- MODULE Spec2Model ----
(***************************************************************************)
(* A state-machine model of the retrieval core of MamaOpeAi_RAG_Gemini:    *)
(* the embedding client (app/services/embedding_service.py), the vector    *)
(* index client (app/services/vector_search_manager.py), the vector store  *)
(* and its retriever (app/services/vectordb_service.py), the store         *)
(* singleton (app/services/vector_store_manager.py) and the text chunker   *)
(* (app/services/document_utils.py).                                       *)
(*                                                                         *)
(* One sequential worker runs the operations.  Each operation is a record  *)
(* (its activation: position, locals) and each remote call of an operation *)
(* is one step whose outcome the remote service chooses.                   *)
(*                                                                         *)
(* Texts are identified by numbers; the cache key (an MD5 digest of the    *)
(* text) is taken to be collision free, so the key of a text is the text.  *)
(* An embedding vector is kept as the text and task mode it was computed   *)
(* for, its length and its number of non-zero components.                  *)
(* An exception is kept as the set of the keywords its message contains    *)
(* among "429", "quota", "exceeded", "limit": the code classifies errors   *)
(* by exactly these substrings.                                            *)
(***************************************************************************)
EXTENDS Integers, Sequences, FiniteSets, TLC

(***************************************************************************)
(* Bounds of the model.                                                    *)
(***************************************************************************)
MaxEmbedTexts == 2
MaxRequests == 2
JitterUnit == 2
MaxUpload == 101
MaxBuildTexts == 21
MaxPlanOks == 1
MaxStoreTexts == 2
MaxQueryText == 1
MaxWords == 2
MaxRuns == 2
MaxDirectUpload == 1
MaxProcs == 3
MaxBlocks == 2
MaxManagerCalls == 4
MaxRebuildRequests == 2

(***************************************************************************)
(* Program constants.                                                      *)
(***************************************************************************)
D == 768
embed_query_max_retries == 5
embed_documents_batch_size == 10
embed_documents_max_retries == 5
embed_documents_token_budget == 8000
initialize_max_retries == 3
upload_batch_size == 100
upload_min_batch_size == 10
upload_max_retries == 5
max_token_limit == 15000
build_batch_size == 20
build_min_batch_size == 5
build_max_retries == 5
max_upload_retries == 3
search_max_retries == 3
invoke_max_retries == 3
invoke_search_retries == 3
MODEL_MAX_TOKENS == 15000
SAFE_TARGET_CHUNK_TOKENS == 1000
MIN_CONTENT_LENGTH == 30
min_paragraph_length == 20
min_chunk_length == 100

VARIABLES
    cache,          \* EmbeddingFunction._cache
    fileCache,      \* the files of CACHE_DIR, by cache key
    request_count,  \* EmbeddingFunction._request_count
    tok,            \* estimate_tokens of each text
    svcBad,         \* the texts the service may answer with a malformed vector
    svcPlan,        \* what the embedding service does with the next requests
    eq,             \* the activation of embed_query
    ed,             \* the activation of embed_documents
    vsm,            \* the fields of the VectorSearchManager
    remoteIndex,    \* the datapoint ids held by the remote index
    ini,            \* the activation of VectorSearchManager.initialize
    up,             \* the activation of upload_embeddings
    docstore,       \* VectorStore.docstore._dict
    index_to_docstore_id,  \* VectorStore.index_to_docstore_id
    cu,             \* the activation of create_and_upload
    se,             \* the activation of VectorSearchManager.search
    rt,             \* the activation of VectorSearchRetriever.invoke
    vectorstore,    \* the global vectorstore of vector_store_manager
    ck,             \* the activation of chunk_text, with its recursive calls
    va,             \* the activation of validate_embedding
    disk,           \* one file of CACHE_DIR, as the blocks written to it
    proc,           \* the processes that embed the text of that file
    serialLen,      \* the blocks of the JSON text of each mode's vector
    mgr             \* the calls of vector_store_manager's two functions

embedVars == <<tok, svcBad, svcPlan, cache, fileCache, request_count, eq, ed>>
indexVars == <<vsm, remoteIndex, ini, up>>
storeVars == <<docstore, index_to_docstore_id, cu>>
retrVars == <<se, rt, vectorstore>>
chunkVars == <<ck>>
validVars == <<va>>
raceVars == <<disk, proc, serialLen>>
mgrVars == <<mgr>>
vars == <<embedVars, indexVars, storeVars, retrVars, chunkVars, validVars, raceVars, mgrVars>>

(***************************************************************************)
(* Values.                                                                 *)
(***************************************************************************)
Put(f, k, v) == [x \in DOMAIN f \cup {k} |-> IF x = k THEN v ELSE f[x]]

EmptyMap == [x \in {} |-> 0]

Pow2(n) == 2 ^ n

Min(a, b) == IF a < b THEN a ELSE b
Max(a, b) == IF a > b THEN a ELSE b

\* The shapes of vector the embedding service may answer with: a vector of
\* the model's dimension, an all-zero one, a short one and an empty one.
GoodShape == [len |-> D, nz |-> 1]

Shapes ==
    { GoodShape, [len |-> D, nz |-> 0],
      [len |-> D - 1, nz |-> 1], [len |-> 0, nz |-> 0] }

\* The messages the remote services may fail with.
RemoteErrs == { {"quota"}, {"exceeded"}, {"limit"}, {} }

\* A Python list is true when it is not empty.
Truthy(e) == e.len > 0

\* The messages of the failures whose text the clients do not look at.
PlainErrs == { {"quota"}, {} }

IsQuotaEmbed(m) == m \cap {"429", "quota", "exceeded"} # {}

(***************************************************************************)
(* The embedding service.  Either it is free to answer or fail every       *)
(* request as it likes (FreePlan), or it follows a plan chosen when        *)
(* create_and_upload calls embed_documents: it answers the next oks        *)
(* requests, fails the fails requests after them with the message err, and *)
(* answers from then on.                                                   *)
(***************************************************************************)
FreePlan == [oks |-> -1, fails |-> 0, err |-> {}]

IdlePlan == [oks |-> 0, fails |-> 0, err |-> {}]

BuildPlans ==
    {IdlePlan} \cup
    {[oks |-> g, fails |-> f, err |-> m] :
        g \in 0 .. MaxPlanOks, f \in {1, embed_documents_max_retries},
        m \in RemoteErrs}

ServiceAnswers == svcPlan.oks # 0 \/ svcPlan.fails = 0

ServiceFails(m) ==
    svcPlan = FreePlan \/ (svcPlan.oks = 0 /\ svcPlan.fails > 0 /\ m = svcPlan.err)

PlanAfterAnswer ==
    IF svcPlan.oks > 0 THEN [svcPlan EXCEPT !.oks = @ - 1] ELSE svcPlan

PlanAfterFailure ==
    IF svcPlan = FreePlan THEN svcPlan ELSE [svcPlan EXCEPT !.fails = @ - 1]

\* The plan once the embed_documents call it was chosen for is over.
PlanAtRest == IF svcPlan = FreePlan THEN FreePlan ELSE IdlePlan

\* The plan of the service for the embed_documents call that starts.
PlansOfCall == IF svcPlan = FreePlan THEN {FreePlan} ELSE BuildPlans

\* The plan of the service for the embed_query call that starts: a call
\* sends one request at a time and ends with the first answer.
PlansOfQuery ==
    IF svcPlan = FreePlan THEN {FreePlan}
    ELSE {p \in BuildPlans : p.oks = 0 /\ p.err # {"exceeded"}}

\* The jitter of a backoff wait, in ticks: any under the free service, the
\* largest under a plan.
Jitters == IF svcPlan = FreePlan THEN 0 .. JitterUnit ELSE {JitterUnit}

(***************************************************************************)
(* EmbeddingFunction: the cache.                                           *)
(***************************************************************************)
\* _get_from_cache: the value found (a sequence of at most one embedding).
CacheLookup(t) ==
    IF t \in DOMAIN cache THEN <<cache[t]>>
    ELSE IF t \in DOMAIN fileCache THEN <<fileCache[t]>>
    ELSE <<>>

\* _get_from_cache: a value read from a file is copied to the memory cache.
CacheAfterLookup(t) ==
    IF t \notin DOMAIN cache /\ t \in DOMAIN fileCache
    THEN Put(cache, t, fileCache[t])
    ELSE cache

CacheHit(t) == CacheLookup(t) # <<>> /\ Truthy(CacheLookup(t)[1])

(***************************************************************************)
(* EmbeddingFunction.embed_query                                           *)
(***************************************************************************)
EqIdle ==
    [pc |-> "idle", text |-> 0, retry |-> 0, quota |-> 0, calls |-> 0,
     wait |-> 0, prevWait |-> 0, result |-> <<>>, err |-> {},
     seen |-> EmptyMap]

\* A backoff whose base does not grow with the attempt number.
BackoffWaitFlat(retry, j) == 2 * JitterUnit + j

\* The backoff wait of a quota failure, in ticks of 1/JitterUnit seconds
\* (line 119: (2 ** retry_count) + random.uniform(0, 1)).
BackoffWait(retry, j) == Pow2(retry) * JitterUnit + j

\* An embed_query that goes through the rate limiter before it looks in the
\* cache.
EqBeginLimited(t) ==
    /\ cache' = CacheAfterLookup(t)
    /\ UNCHANGED <<fileCache, tok, svcBad>>
    /\ request_count' = request_count + 1
    /\ eq' = IF CacheHit(t)
             THEN [EqIdle EXCEPT !.pc = "returned", !.text = t,
                                 !.result = CacheLookup(t), !.seen = eq.seen]
             ELSE [EqIdle EXCEPT !.pc = "call", !.text = t, !.seen = eq.seen]

\* Lines 92-98: the cache check and, on a miss, the rate limiter.
EqBegin(t) ==
    /\ cache' = CacheAfterLookup(t)
    /\ UNCHANGED <<fileCache, tok, svcBad>>
    /\ IF CacheHit(t)
       THEN /\ eq' = [EqIdle EXCEPT !.pc = "returned", !.text = t,
                                    !.result = CacheLookup(t),
                                    !.seen = eq.seen]
            /\ UNCHANGED request_count
       ELSE /\ eq' = [EqIdle EXCEPT !.pc = "call", !.text = t,
                                    !.seen = eq.seen]
            /\ request_count' = request_count + 1

\* The vector the service answers for text t in the given task mode, when
\* s is the shape it gives to the vectors it malforms in this answer.
Answer(t, mode, s) ==
    LET sh == IF t \in svcBad THEN s ELSE GoodShape
    IN [src |-> t, mode |-> mode, len |-> sh.len, nz |-> sh.nz]

\* Lines 104-111: one attempt that the service answers.
EmbedQueryOk ==
    /\ eq.pc = "call"
    /\ ServiceAnswers
    /\ svcPlan' = PlanAfterAnswer
    /\ \E s \in Shapes :
         LET e == Answer(eq.text, "RETRIEVAL_QUERY", s)
         IN /\ cache' = Put(cache, eq.text, e)
            /\ fileCache' = Put(fileCache, eq.text, e)
            /\ eq' = [eq EXCEPT !.pc = "returned", !.calls = @ + 1,
                                !.result = <<e>>]
    /\ UNCHANGED <<request_count, tok, svcBad, ed>>

\* A failed attempt of an embed_query that allows one attempt more.
EqAfterErrorExtra(m, j) ==
    [eq EXCEPT !.retry = @ + 1, !.calls = @ + 1, !.err = m,
               !.pc = IF eq.retry < embed_query_max_retries
                      THEN "call" ELSE "raised"]

\* Lines 113-130: one attempt that fails.
EqAfterError(m, j) ==
    LET r == eq.retry + 1 IN
    IF IsQuotaEmbed(m)
    THEN [eq EXCEPT !.retry = r, !.quota = @ + 1, !.calls = @ + 1,
                    !.prevWait = eq.wait, !.wait = BackoffWait(r, j),
                    !.pc = IF r < embed_query_max_retries THEN "call" ELSE "raised",
                    !.err = {}]
    ELSE IF r < embed_query_max_retries
    THEN [eq EXCEPT !.retry = r, !.calls = @ + 1,
                    !.prevWait = eq.wait, !.wait = JitterUnit]
    ELSE [eq EXCEPT !.retry = r, !.calls = @ + 1, !.pc = "raised", !.err = m]

EmbedQueryError ==
    /\ eq.pc = "call"
    /\ \E m \in RemoteErrs, j \in Jitters :
         /\ ServiceFails(m)
         /\ eq' = EqAfterError(m, j)
    /\ svcPlan' = PlanAfterFailure
    /\ UNCHANGED <<cache, fileCache, request_count, tok, svcBad, ed>>

(***************************************************************************)
(* EmbeddingFunction.embed_documents                                       *)
(***************************************************************************)
EdIdle ==
    [pc |-> "idle", texts |-> <<>>, uncached |-> <<>>, idx |-> <<>>,
     all |-> <<>>, batch_size |-> 0, start_index |-> 0, end_index |-> 0,
     retry |-> 0, quota |-> 0, failed_size |-> 0, short |-> FALSE,
     remote |-> FALSE, result |-> <<>>, err |-> {}]

RECURSIVE SumTokens(_, _, _)
\* sum(estimate_tokens(text) for text in uncached[lo:hi]), positions from 0.
SumTokens(ts, lo, hi) ==
    IF lo >= hi THEN 0 ELSE tok[ts[lo + 1]] + SumTokens(ts, lo + 1, hi)

RECURSIVE FitBatch(_, _, _)
\* Lines 180-185: the batch size after halving it while the batch holds more
\* than the token budget.
FitBatch(ts, start, bs) ==
    IF SumTokens(ts, start, Min(start + bs, Len(ts))) > embed_documents_token_budget
       /\ bs > 1
    THEN FitBatch(ts, start, Max(1, bs \div 2))
    ELSE bs

\* The head of a round that sends the batch without the token check.
EdEnterBatchUnfitted(e) ==
    [e EXCEPT !.pc = "call", !.retry = 0, !.quota = 0, !.failed_size = 0,
              !.end_index = Min(e.start_index + e.batch_size, Len(e.uncached))]

\* Lines 168-192: the head of one round of the while loop, up to the first
\* attempt (the rate limiter counts the round in request_count).
EdEnterBatch(e) ==
    LET bs == FitBatch(e.uncached, e.start_index, e.batch_size)
    IN [e EXCEPT !.pc = "call", !.batch_size = bs, !.retry = 0,
                 !.quota = 0, !.failed_size = 0,
                 !.end_index = Min(e.start_index + bs, Len(e.uncached))]

\* Lines 133-166: the cache pass over the texts.
EdBegin(ts) ==
    LET hits == {i \in 1 .. Len(ts) : CacheHit(ts[i])}
        idx == SelectSeq([i \in 1 .. Len(ts) |-> i], LAMBDA i : i \notin hits)
        all == [i \in 1 .. Len(ts) |->
                   IF i \in hits THEN CacheLookup(ts[i]) ELSE <<>>]
        e == [EdIdle EXCEPT !.texts = ts, !.idx = idx, !.all = all,
                            !.uncached = [k \in 1 .. Len(idx) |-> ts[idx[k]]],
                            !.batch_size = embed_documents_batch_size]
        fromFile == {ts[i] : i \in 1 .. Len(ts)} \cap (DOMAIN fileCache \ DOMAIN cache)
    IN /\ cache' = [t \in DOMAIN cache \cup fromFile |->
                       IF t \in DOMAIN cache THEN cache[t] ELSE fileCache[t]]
       /\ UNCHANGED <<fileCache, tok, svcBad>>
       /\ IF idx = <<>>
          THEN /\ ed' = [e EXCEPT !.pc = "returned",
                                  !.result = [i \in 1 .. Len(ts) |-> all[i][1]]]
               /\ UNCHANGED request_count
          ELSE /\ ed' = EdEnterBatch(e)
               /\ request_count' = request_count + 1

\* A return of the embeddings that came, without the check for missing ones.
EdFinishUnchecked(e) ==
    [e EXCEPT !.pc = "returned",
              !.result = [k \in 1 .. Len(SelectSeq(e.all, LAMBDA a : a # <<>>)) |->
                            SelectSeq(e.all, LAMBDA a : a # <<>>)[k][1]]]

\* Lines 243-247: the check for missing embeddings and the return.
EdFinish(e) ==
    IF \E i \in 1 .. Len(e.all) : e.all[i] = <<>>
    THEN [e EXCEPT !.pc = "raised", !.err = {}]
    ELSE [e EXCEPT !.pc = "returned",
                   !.result = [i \in 1 .. Len(e.all) |-> e.all[i][1]]]

\* A position taken from the other end of the uncached indices.
OrigIdxReversed(e, k) == e.idx[Len(e.idx) + 1 - k]

\* Line 205: orig_idx = uncached_indices[start_index + i], the position in
\* texts of the k-th uncached text.
OrigIdx(e, k) == e.idx[k]

\* The numbers of vectors the service may answer a request of n inputs with:
\* one for each input or, when it is free to, one fewer.
AnswerCounts(n) == IF svcPlan = FreePlan THEN {n, n - 1} ELSE {n}

\* Lines 196-206 and 237-241: an attempt the service answers, with vectors
\* for the first inputs in order (zip pairs the texts of the batch with the
\* vectors that came); the round ends and the next one starts.
EmbedDocumentsOk ==
    /\ ed.pc = "call"
    /\ ServiceAnswers
    /\ svcPlan' = PlanAfterAnswer
    /\ \E s \in Shapes, c \in AnswerCounts(ed.end_index - ed.start_index) :
         LET batch == (ed.start_index + 1) .. (ed.start_index + c)
             got == [k \in batch |-> Answer(ed.uncached[k], "RETRIEVAL_DOCUMENT", s)]
             e == [ed EXCEPT !.remote = TRUE, !.failed_size = 0,
                             !.short = @ \/ (c < ed.end_index - ed.start_index),
                             !.start_index = ed.end_index,
                             !.all = [i \in 1 .. Len(ed.all) |->
                                        IF \E k \in batch : OrigIdx(ed, k) = i
                                        THEN <<got[CHOOSE k \in batch : OrigIdx(ed, k) = i]>>
                                        ELSE ed.all[i]]]
             saved == {ed.uncached[k] : k \in batch}
             New(f) == [t \in DOMAIN f \cup saved |->
                          IF t \in saved
                          THEN got[CHOOSE k \in batch : ed.uncached[k] = t]
                          ELSE f[t]]
         IN /\ cache' = New(cache)
            /\ fileCache' = New(fileCache)
            /\ IF e.start_index < Len(e.uncached)
               THEN /\ ed' = EdEnterBatch(e)
                    /\ request_count' = request_count + 1
               ELSE /\ ed' = EdFinish(e)
                    /\ UNCHANGED request_count
    /\ UNCHANGED <<tok, svcBad, eq>>

\* Lines 208-235: an attempt that fails.
EdAfterError(m) ==
    LET r == ed.retry + 1
        shrink == IsQuotaEmbed(m) /\ ed.batch_size > 1
        bs == IF shrink THEN Max(1, ed.batch_size \div 2) ELSE ed.batch_size
        e == [ed EXCEPT !.retry = r, !.remote = TRUE, !.batch_size = bs,
                        !.quota = IF IsQuotaEmbed(m) THEN @ + 1 ELSE @,
                        !.failed_size = IF IsQuotaEmbed(m) THEN ed.batch_size ELSE 0,
                        !.end_index = IF shrink
                                      THEN Min(ed.start_index + bs, Len(ed.uncached))
                                      ELSE @]
    IN IF r < embed_documents_max_retries THEN e
       ELSE [e EXCEPT !.pc = "raised",
                      !.err = IF IsQuotaEmbed(m) THEN {} ELSE m]

EmbedDocumentsError ==
    /\ ed.pc = "call"
    /\ \E m \in RemoteErrs :
         /\ ServiceFails(m)
         /\ ed' = EdAfterError(m)
    /\ svcPlan' = PlanAfterFailure
    /\ UNCHANGED <<cache, fileCache, request_count, tok, svcBad, eq>>

(***************************************************************************)
(* VectorSearchManager: the fields and initialize                          *)
(***************************************************************************)
\* The datapoint id f"doc_{i}": a prefix and the digits that follow it.
DocId(i) == <<"doc_", i>>

IsQuotaUpload(m) == m \cap {"429", "quota", "limit"} # {}

\* Lines 16-26.  deployed_index_id comes from the environment and may be
\* unset ("none").
VsmNew(deployed) ==
    [initialized |-> FALSE, index |-> FALSE, index_endpoint |-> FALSE,
     deployed_index_id |-> deployed]

IniIdle == [pc |-> "idle", retry |-> 0, calls |-> 0, err |-> {}]

\* A call of initialize that connects again whatever the client's state.
IniBeginAlways == [IniIdle EXCEPT !.pc = "call"]

\* Lines 32-37: a call of initialize; a no-op once initialized.
IniBegin ==
    IF vsm.initialized THEN [IniIdle EXCEPT !.pc = "returned"]
    ELSE [IniIdle EXCEPT !.pc = "call"]

\* Lines 40-64: an attempt that succeeds.  When no deployed index id was
\* configured, the endpoint's first deployed index is taken, if it has one.
InitializeOk ==
    /\ ini.pc = "call"
    /\ \E hasDeployed \in BOOLEAN :
         vsm' = [vsm EXCEPT !.initialized = TRUE, !.index = TRUE,
                            !.index_endpoint = TRUE,
                            !.deployed_index_id =
                                IF @ = "none" /\ hasDeployed THEN "first" ELSE @]
    /\ ini' = [ini EXCEPT !.pc = "returned", !.calls = @ + 1]
    /\ UNCHANGED <<remoteIndex, up>>

\* Lines 66-77: an attempt that fails, at aiplatform.init or the index
\* ("init"), at the endpoint ("endpoint") or at its deployed indexes
\* ("deployed"); the handles assigned before the failure stay assigned.
InitializeError ==
    /\ ini.pc = "call"
    /\ \E m \in PlainErrs, at \in {"init", "endpoint", "deployed"} :
         /\ at = "deployed" => vsm.deployed_index_id = "none"
         /\ vsm' = [vsm EXCEPT !.index = @ \/ at \in {"endpoint", "deployed"},
                               !.index_endpoint = @ \/ at = "deployed"]
         /\ ini' = [ini EXCEPT !.retry = @ + 1, !.calls = @ + 1,
                               !.pc = IF ini.retry + 1 < initialize_max_retries
                                      THEN "call" ELSE "raised",
                               !.err = m]
    /\ UNCHANGED <<remoteIndex, up>>

(***************************************************************************)
(* VectorSearchManager.upload_embeddings                                   *)
(* The call is given n embeddings and m ids; the datapoint at position p   *)
(* (from 0) pairs ids[p] with embeddings[p], and ids[p] is DocId(p).       *)
(***************************************************************************)
UpIdle ==
    [pc |-> "idle", n |-> 0, m |-> 0, i |-> 0, batch_size |-> 0,
     batch_end |-> 0, retry |-> 0, total_uploaded |-> 0, sent |-> {},
     calls |-> 0, inits |-> 0, err |-> {}, errType |-> "",
     error_str |-> {}]

\* An upload that goes to its first batch without comparing the lengths.
UpUnvalidated(u) ==
    IF u.n = 0 THEN [u EXCEPT !.pc = "returned"]
    ELSE [u EXCEPT !.pc = "upsert", !.i = 0,
                   !.batch_size = upload_batch_size,
                   !.batch_end = Min(upload_batch_size, u.n)]

\* Lines 84-100: the validation and the first batch.
UpValidated(u) ==
    IF u.n # u.m THEN [u EXCEPT !.pc = "raised", !.errType = "ValueError"]
    ELSE IF u.n = 0 THEN [u EXCEPT !.pc = "returned"]
    ELSE [u EXCEPT !.pc = "upsert", !.i = 0,
                   !.batch_size = upload_batch_size,
                   !.batch_end = Min(upload_batch_size, u.n)]

\* Lines 81-82: initialize first when the client is not initialized.
UpBegin(n, m) ==
    LET u == [UpIdle EXCEPT !.n = n, !.m = m] IN
    IF vsm.initialized
    THEN /\ up' = UpValidated(u)
         /\ UNCHANGED ini
    ELSE /\ up' = [u EXCEPT !.pc = "init"]
         /\ ini' = IniBegin

\* Lines 82-89: initialize has returned or raised.
UploadAfterInitialize ==
    /\ up.pc = "init"
    /\ ini.pc \in {"returned", "raised"}
    /\ up' = IF ini.pc = "raised"
             THEN [up EXCEPT !.pc = "raised", !.err = ini.err,
                             !.errType = "Exception", !.inits = ini.calls]
             ELSE UpValidated([up EXCEPT !.inits = ini.calls])
    /\ ini' = IniIdle
    /\ UNCHANGED <<vsm, remoteIndex>>

\* The batch step of the for loop (line 95): range(0, n, batch_size) is
\* evaluated once, with the batch size the loop was entered with.
UploadStep == upload_batch_size

\* Lines 115-120 and 95-98: a successful upsert, then the next batch.  The
\* local error_str ends with the call (line 160).
UpsertOk ==
    /\ up.pc = "upsert"
    /\ LET batch == up.i .. (up.batch_end - 1)
           next == up.i + UploadStep
           u == [up EXCEPT !.sent = @ \cup batch, !.calls = @ + 1,
                           !.total_uploaded = @ + Cardinality(batch)]
       IN /\ remoteIndex' = remoteIndex \cup {DocId(p) : p \in batch}
          /\ up' = IF next < up.n
                   THEN [u EXCEPT !.i = next, !.retry = 0,
                                  !.batch_end = Min(next + up.batch_size, up.n)]
                   ELSE [u EXCEPT !.pc = "returned", !.error_str = {}]
    /\ UNCHANGED <<vsm, ini>>

\* A failed upsert that gives the batch up after the last attempt and ends
\* the call normally.
UpAfterErrorSkip(m) ==
    LET r == up.retry + 1
        u == [up EXCEPT !.retry = r, !.calls = @ + 1]
    IN IF r < upload_max_retries THEN u
       ELSE [u EXCEPT !.pc = "returned"]

\* A failed upsert that halves the batch size whatever the failure says.
UpAfterErrorShrinkAlways(m) ==
    LET r == up.retry + 1
        shrink == up.batch_size > upload_min_batch_size
        bs == IF shrink THEN Max(upload_min_batch_size, up.batch_size \div 2)
              ELSE up.batch_size
        u == [up EXCEPT !.retry = r, !.calls = @ + 1, !.batch_size = bs,
                        !.error_str = m,
                        !.batch_end = IF shrink THEN Min(up.i + bs, up.n) ELSE @]
    IN IF r < upload_max_retries THEN u
       ELSE [u EXCEPT !.pc = "raised", !.err = m, !.errType = "Exception"]

\* Lines 122-154: a failed upsert.  error_str (line 124) is the message of
\* the failure.
UpAfterError(m) ==
    LET r == up.retry + 1
        shrink == IsQuotaUpload(m) /\ up.batch_size > upload_min_batch_size
        bs == IF shrink THEN Max(upload_min_batch_size, up.batch_size \div 2)
              ELSE up.batch_size
        u == [up EXCEPT !.retry = r, !.calls = @ + 1, !.batch_size = bs,
                        !.error_str = m,
                        !.batch_end = IF shrink THEN Min(up.i + bs, up.n) ELSE @]
    IN IF r < upload_max_retries THEN u
       ELSE [u EXCEPT !.pc = "raised", !.err = m, !.errType = "Exception"]

UpsertError ==
    /\ up.pc = "upsert"
    /\ \E m \in RemoteErrs : up' = UpAfterError(m)
    /\ UNCHANGED <<vsm, remoteIndex, ini>>

(***************************************************************************)
(* VectorStore.create_and_upload                                           *)
(* The metadata given with text t is written t as well: texts and          *)
(* metadatas are parallel lists.                                           *)
(***************************************************************************)
IsQuotaBuild(m) == m \cap {"429", "quota", "limit"} # {}

\* EmbeddingFunction.validate_embedding (embedding_service.py, 249-256).
\* A validation that accepts every vector.
validate_embedding_any(e) == TRUE

\* Lines 249-256, on the length and the number of non-zero components.
validate_embedding(e) == e.len # 0 /\ e.len = D /\ e.nz > 0

Document(text, metadata) == [page_content |-> text, metadata |-> metadata]

CuIdle ==
    [pc |-> "idle", texts |-> <<>>, valid_texts |-> <<>>, batch_size |-> 0,
     i |-> 0, end_idx |-> 0, retry_count |-> 0, embeddings |-> <<>>,
     valid_embeddings |-> <<>>, final_texts |-> <<>>, upload_retry |-> 0,
     skipped |-> 0, err |-> {}, errType |-> "", stage |-> "",
     before |-> <<EmptyMap, EmptyMap>>]

\* Lines 109-110: the positions k <= n whose embedding is valid, in order.
ValidPositions(embeddings, n) ==
    SelectSeq([k \in 1 .. n |-> k],
              LAMBDA k : validate_embedding(embeddings[k]))

\* Lines 53 / 86: batch_texts = valid_texts[i:end_idx].
BatchTexts(c) == SubSeq(c.valid_texts, c.i + 1, c.end_idx)

\* Lines 62-68: a call of embed_documents on the current batch.
CuCallEmbed(c) ==
    /\ cu' = [c EXCEPT !.pc = "embed"]
    /\ EdBegin(BatchTexts(c))
    /\ svcPlan' \in PlansOfCall
    /\ UNCHANGED <<eq, indexVars, docstore, index_to_docstore_id>>

\* A mapping that holds the positions of the last build only.
MappingRebuilt(old, n) == [k \in 0 .. n - 1 |-> DocId(k)]

\* Line 128, for the n documents of a build: index_to_docstore_id[i] = doc_id
\* is assigned for each position, and the other positions keep their ids.
MappingAfter(old, n) ==
    [k \in DOMAIN old \cup (0 .. n - 1) |->
        IF k < n THEN DocId(k) ELSE old[k]]

\* Lines 103-140: the validation of the embeddings, the ids and documents,
\* and the first call of upload_embeddings.
CuAfterEmbedding(c) ==
    LET n == Min(Len(c.embeddings), Len(c.valid_texts))
        keep == ValidPositions(c.embeddings, n)
        valid_embeddings == [k \in 1 .. Len(keep) |-> c.embeddings[keep[k]]]
        final_texts == [k \in 1 .. Len(keep) |-> c.valid_texts[keep[k]]]
        ids == {DocId(k - 1) : k \in 1 .. Len(keep)}
    IN IF keep = <<>>
       THEN /\ cu' = [c EXCEPT !.pc = "raised", !.errType = "ValueError",
                               !.stage = "validate"]
            /\ ed' = EdIdle
            /\ svcPlan' = PlanAtRest
            /\ UNCHANGED <<tok, svcBad, cache, fileCache, request_count, eq,
                           indexVars, docstore, index_to_docstore_id>>
       ELSE /\ cu' = [c EXCEPT !.pc = "upload", !.upload_retry = 0,
                               !.valid_embeddings = valid_embeddings,
                               !.final_texts = final_texts]
            /\ docstore' =
                 [d \in DOMAIN docstore \cup ids |->
                    IF d \in ids
                    THEN Document(final_texts[d[2] + 1], final_texts[d[2] + 1])
                    ELSE docstore[d]]
            /\ index_to_docstore_id' =
                 MappingAfter(index_to_docstore_id, Len(keep))
            /\ UpBegin(Len(keep), Len(keep))
            /\ ed' = EdIdle
            /\ svcPlan' = PlanAtRest
            /\ UNCHANGED <<tok, svcBad, cache, fileCache, request_count, eq,
                           vsm, remoteIndex>>

\* The step of the batch loop (line 50): range(0, len(valid_texts),
\* batch_size) is evaluated once, with the batch size of line 47.
BuildStep(c) == build_batch_size

\* Lines 50-55 and 96-101: the batch at c.i is over; the next batch, or the
\* end of the loop.
CuNextBatch(c) ==
    LET next == c.i + BuildStep(c) IN
    IF next < Len(c.valid_texts)
    THEN CuCallEmbed([c EXCEPT !.i = next, !.retry_count = 0,
                               !.end_idx = Min(next + c.batch_size,
                                               Len(c.valid_texts))])
    ELSE CuAfterEmbedding(c)

\* Lines 27-55: the token filter and the first batch.
CuBegin(texts) ==
    LET valid == SelectSeq(texts, LAMBDA t : ~(tok[t] > max_token_limit))
        c == [CuIdle EXCEPT !.texts = texts, !.valid_texts = valid,
                            !.before = <<docstore, index_to_docstore_id>>,
                            !.batch_size = build_batch_size, !.i = 0,
                            !.end_idx = Min(build_batch_size, Len(valid))]
    IN IF valid = <<>> THEN CuAfterEmbedding(c) ELSE CuCallEmbed(c)

\* Line 68 and 101: embed_documents returned the embeddings of the batch.
BuildEmbedReturned ==
    /\ cu.pc = "embed" /\ ed.pc = "returned"
    /\ CuNextBatch([cu EXCEPT !.embeddings = @ \o ed.result])

\* Lines 69-99: embed_documents raised.
BuildEmbedRaised ==
    /\ cu.pc = "embed" /\ ed.pc = "raised"
    /\ LET r == cu.retry_count + 1
           quota == IsQuotaBuild(ed.err)
           shrink == quota /\ r > 2 /\ cu.batch_size > build_min_batch_size
           bs == IF shrink THEN Max(build_min_batch_size, cu.batch_size \div 2)
                 ELSE cu.batch_size
           c == [cu EXCEPT !.retry_count = r, !.batch_size = bs,
                           !.end_idx = IF shrink
                                       THEN Min(cu.i + bs, Len(cu.valid_texts))
                                       ELSE @]
       IN IF r < build_max_retries THEN CuCallEmbed(c)
          ELSE IF quota THEN CuNextBatch([c EXCEPT !.skipped = @ + 1])
          ELSE /\ cu' = [c EXCEPT !.pc = "raised", !.err = ed.err,
                                  !.errType = "Exception", !.stage = "embed"]
               /\ ed' = EdIdle
               /\ svcPlan' = PlanAtRest
            /\ UNCHANGED <<tok, svcBad, cache, fileCache, request_count, eq,
                              indexVars, docstore, index_to_docstore_id>>

\* Lines 140-142: upload_embeddings returned.
BuildUploadReturned ==
    /\ cu.pc = "upload" /\ up.pc = "returned"
    /\ cu' = [cu EXCEPT !.pc = "returned"]
    /\ up' = UpIdle
    /\ UNCHANGED <<embedVars, vsm, remoteIndex, ini, docstore,
                   index_to_docstore_id>>

\* Lines 143-154: upload_embeddings raised.
BuildUploadRaised ==
    /\ cu.pc = "upload" /\ up.pc = "raised"
    /\ LET r == cu.upload_retry + 1 IN
       IF r < max_upload_retries
       THEN /\ cu' = [cu EXCEPT !.upload_retry = r]
            /\ UpBegin(Len(cu.valid_embeddings), Len(cu.valid_embeddings))
       ELSE /\ cu' = [cu EXCEPT !.upload_retry = r, !.pc = "raised",
                                !.err = up.err, !.errType = up.errType,
                                !.stage = "upload"]
            /\ up' = UpIdle
            /\ UNCHANGED ini
    /\ UNCHANGED <<embedVars, vsm, remoteIndex, docstore, index_to_docstore_id>>

StoreNew ==
    /\ docstore = EmptyMap
    /\ index_to_docstore_id = EmptyMap
    /\ cu = CuIdle

(***************************************************************************)
(* VectorSearchManager.search                                              *)
(***************************************************************************)
SeIdle ==
    [pc |-> "idle", top_k |-> 0, retry |-> 0, calls |-> 0, inits |-> 0,
     result |-> <<>>, err |-> {}, errType |-> ""]

\* Lines 167-171: no search without a deployed index id.
SeReady(s) ==
    IF vsm.deployed_index_id = "none"
    THEN [s EXCEPT !.pc = "raised", !.errType = "ValueError"]
    ELSE [s EXCEPT !.pc = "find"]

\* Lines 164-165: initialize first when the client is not initialized.
SeBegin(k) ==
    LET s == [SeIdle EXCEPT !.top_k = k] IN
    IF vsm.initialized
    THEN /\ se' = SeReady(s)
         /\ UNCHANGED ini
    ELSE /\ se' = [s EXCEPT !.pc = "init"]
         /\ ini' = IniBegin

\* Lines 165-171: initialize has returned or raised.
SearchAfterInitialize ==
    /\ se.pc = "init"
    /\ ini.pc \in {"returned", "raised"}
    /\ se' = IF ini.pc = "raised"
             THEN [se EXCEPT !.pc = "raised", !.err = ini.err,
                             !.errType = "Exception", !.inits = ini.calls]
             ELSE SeReady([se EXCEPT !.inits = ini.calls])
    /\ ini' = IniIdle
    /\ UNCHANGED <<vsm, remoteIndex, up, rt, vectorstore>>

\* The answers of find_neighbors: at most k ids of the remote index, each
\* once, in rank order.
Neighbours(k) ==
    { r \in UNION { [1 .. n -> remoteIndex] :
                      n \in 0 .. Min(k, Cardinality(remoteIndex)) } :
        \A i, j \in DOMAIN r : i # j => r[i] # r[j] }

\* Lines 174-186: a request that the endpoint answers; an empty answer is
\* returned as the empty list.
FindNeighborsOk ==
    /\ se.pc = "find"
    /\ \E r \in Neighbours(se.top_k) :
         se' = [se EXCEPT !.pc = "returned", !.calls = @ + 1, !.result = r]
    /\ UNCHANGED <<vsm, remoteIndex, ini, up, rt, vectorstore>>

\* A search that answers the empty list when its last request has failed.
FindNeighborsErrorSwallowed ==
    /\ se.pc = "find"
    /\ \E m \in PlainErrs :
         se' = [se EXCEPT !.retry = @ + 1, !.calls = @ + 1, !.err = m,
                          !.pc = IF se.retry + 1 < search_max_retries
                                 THEN "find" ELSE "returned"]
    /\ UNCHANGED <<vsm, remoteIndex, ini, up, rt, vectorstore>>

\* Lines 188-201: a request that fails.
FindNeighborsError ==
    /\ se.pc = "find"
    /\ \E m \in PlainErrs :
         se' = [se EXCEPT !.retry = @ + 1, !.calls = @ + 1, !.err = m,
                          !.errType = "Exception",
                          !.pc = IF se.retry + 1 < search_max_retries
                                 THEN "find" ELSE "raised"]
    /\ UNCHANGED <<vsm, remoteIndex, ini, up, rt, vectorstore>>

(***************************************************************************)
(* VectorSearchRetriever                                                   *)
(* invoke is modelled as the method of a retriever whose vector_store and  *)
(* search_kwargs = {"k": k} fields are set.                                *)
(***************************************************************************)
\* embed_requests and find_requests count the remote requests of the calls
\* of embed_query and of search that have raised during the invoke.
RtIdle ==
    [pc |-> "idle", query |-> 0, k |-> 0, retry_count |-> 0,
     search_count |-> 0, query_embedding |-> <<>>, neighbors |-> <<>>,
     result |-> <<>>, err |-> {}, errType |-> "", embed_requests |-> 0,
     find_requests |-> 0]

\* Lines 158-164: as_retriever constructs the retriever; __init__ reads the
\* name search_kwargs, which is neither a parameter nor a global.
AsRetriever ==
    /\ rt.pc = "idle"
    /\ rt' = [RtIdle EXCEPT !.pc = "ctor_raised", !.errType = "NameError"]
    /\ UNCHANGED <<embedVars, indexVars, storeVars, se, vectorstore>>

IsQuotaInvoke(m) == m \cap {"429", "quota"} # {}

\* int(neighbor.id) (line 220): an id is the text <<prefix, decimal digits>>
\* and parses as an integer only when the prefix is empty.
ParsesAsInt(id) == id[1] = ""

IntOf(id) == id[2]

\* Line 220 for one neighbour: the exception it raises, or "ok".
NeighbourOutcome(id) ==
    IF ~ParsesAsInt(id) THEN "ValueError"
    ELSE IF IntOf(id) \notin DOMAIN index_to_docstore_id THEN "KeyError"
    ELSE IF index_to_docstore_id[IntOf(id)] \notin DOMAIN docstore
    THEN "KeyError"
    ELSE "ok"

\* Lines 172-174: a call of embed_query on the query.
RtCallEmbed(r) ==
    /\ rt' = [r EXCEPT !.pc = "embed"]
    /\ EqBegin(r.query)
    /\ svcPlan' \in PlansOfQuery
    /\ UNCHANGED <<ed, indexVars, storeVars, se, vectorstore>>

\* Lines 190-203: embed_query returned; the validation of the query
\* embedding and the first call of search.
InvokeEmbedReturned ==
    /\ rt.pc = "embed" /\ eq.pc = "returned"
    /\ LET e == eq.result[1] IN
       IF validate_embedding(e)
       THEN /\ rt' = [rt EXCEPT !.pc = "search", !.query_embedding = <<e>>]
            /\ SeBegin(rt.k)
       ELSE /\ rt' = [rt EXCEPT !.pc = "raised", !.errType = "ValueError",
                                !.query_embedding = <<e>>]
            /\ UNCHANGED <<se, ini>>
    /\ eq' = EqIdle
    /\ svcPlan' = PlanAtRest
    /\ UNCHANGED <<tok, svcBad, cache, fileCache, request_count, ed, vsm,
                   remoteIndex, up, storeVars, vectorstore>>

\* Lines 175-191: embed_query raised.
InvokeEmbedRaised ==
    /\ rt.pc = "embed" /\ eq.pc = "raised"
    /\ LET r == rt.retry_count + 1 IN
       IF r < invoke_max_retries
       THEN RtCallEmbed([rt EXCEPT !.retry_count = r,
                                   !.embed_requests = @ + eq.calls])
       ELSE /\ rt' = [rt EXCEPT
                        !.retry_count = r, !.pc = "raised",
                        !.embed_requests = @ + eq.calls,
                        !.err = IF IsQuotaInvoke(eq.err) THEN {} ELSE eq.err,
                        !.errType = IF IsQuotaInvoke(eq.err)
                                    THEN "RuntimeError" ELSE "Exception"]
            /\ eq' = EqIdle
            /\ svcPlan' = PlanAtRest
            /\ UNCHANGED <<tok, svcBad, cache, fileCache, request_count, ed,
                           indexVars, storeVars, se, vectorstore>>

\* Lines 216-222: search returned; each neighbour id is turned into a
\* position, the position into a docstore id and the id into a document.
InvokeSearchReturned ==
    /\ rt.pc = "search" /\ se.pc = "returned"
    /\ LET nb == se.result
           bad == {i \in DOMAIN nb : NeighbourOutcome(nb[i]) # "ok"}
           first == CHOOSE i \in bad : \A j \in bad : i <= j
       IN rt' = IF bad = {}
                THEN [rt EXCEPT
                        !.pc = "returned", !.neighbors = nb,
                        !.result =
                          [i \in DOMAIN nb |->
                             docstore[index_to_docstore_id[IntOf(nb[i])]]]]
                ELSE [rt EXCEPT !.pc = "raised", !.neighbors = nb,
                                !.errType = NeighbourOutcome(nb[first])]
    /\ se' = SeIdle
    /\ UNCHANGED <<embedVars, indexVars, storeVars, vectorstore>>

\* Lines 204-214: search raised.
InvokeSearchRaised ==
    /\ rt.pc = "search" /\ se.pc = "raised"
    /\ LET c == rt.search_count + 1 IN
       IF c < invoke_search_retries
       THEN /\ rt' = [rt EXCEPT !.search_count = c,
                                !.find_requests = @ + se.calls]
            /\ SeBegin(rt.k)
       ELSE /\ rt' = [rt EXCEPT !.search_count = c, !.pc = "raised",
                                !.find_requests = @ + se.calls,
                                !.err = se.err, !.errType = se.errType]
            /\ se' = SeIdle
            /\ UNCHANGED ini
    /\ UNCHANGED <<embedVars, vsm, remoteIndex, up, storeVars, vectorstore>>

(***************************************************************************)
(* vector_store_manager.initialize_vectorstore, run when the serving       *)
(* process imports the module: the store is the one load_vectorstore       *)
(* returns, a new VectorStore with a new index client, an empty docstore   *)
(* and an empty mapping.  The process starts with an empty memory cache;   *)
(* the cache files and the remote index are as earlier processes left      *)
(* them.                                                                   *)
(***************************************************************************)
EnvDeployedIndexId ==
    IF vsm.deployed_index_id = "first" THEN "none" ELSE vsm.deployed_index_id

\* Lines 8-10 of vector_store_manager and load_vectorstore: the global is
\* assigned the new store.
StoreLoaded ==
    /\ vectorstore' = "VectorStore"
    /\ docstore' = EmptyMap
    /\ index_to_docstore_id' = EmptyMap
    /\ vsm' = VsmNew(EnvDeployedIndexId)
    /\ cache' = EmptyMap
    /\ request_count' = 0
    /\ UNCHANGED <<tok, svcBad, svcPlan, fileCache, eq, ed, remoteIndex, ini,
                   up, cu, se, rt>>

initialize_vectorstore ==
    /\ vectorstore = "None"
    /\ rt.pc = "idle" /\ cu.pc \in {"idle", "done"}
    /\ StoreLoaded

MgrIdle ==
    [pc |-> "idle", calls |-> 0, loads |-> 0, fails |-> 0, noops |-> 0,
     got |-> "", errType |-> ""]

ManagerIdle == mgr = MgrIdle

\* An initialize_vectorstore that loads a store whatever the global holds.
MgrBeginAlways == "load"

\* Line 8: the store is loaded only when the global is None.
MgrBegin == IF vectorstore = "None" THEN "load" ELSE "init_returned"

RetrieverIdle ==
    /\ se = SeIdle
    /\ rt = RtIdle
    /\ vectorstore = "None"

(***************************************************************************)
(* document_utils: the chunker.                                            *)
(* A text is a sequence of words.  The word [c, n, end, sep] is the letter *)
(* c written n times, followed by a full stop when end is true; sep is the *)
(* whitespace that follows it in the text, a space or a blank line.  A     *)
(* chunk is a sequence of words joined by single spaces.                   *)
(***************************************************************************)
WordLen(w) == w.n + (IF w.end THEN 1 ELSE 0)

RECURSIVE SumWordLen(_)
SumWordLen(W) == IF W = <<>> THEN 0 ELSE WordLen(Head(W)) + SumWordLen(Tail(W))

\* len() of the words of W joined by single spaces.
StrLen(W) == IF W = <<>> THEN 0 ELSE SumWordLen(W) + Len(W) - 1

\* Lines 32-42, by the formula of line 42; the encoder of lines 37-38 is a
\* library outside the source.
estimate_tokens(W) == StrLen(W) \div 4

\* Line 102: estimate_tokens(word + " ").
estimate_word_tokens(w) == (WordLen(w) + 1) \div 4

\* Lines 44-54: every run of whitespace, a blank line too, becomes one
\* space (line 47).
clean_text(T) == [i \in DOMAIN T |-> [T[i] EXCEPT !.sep = " "]]

\* Line 65: text.split("\n\n"); acc is the paragraph being read.
RECURSIVE SplitParagraphs(_, _)
SplitParagraphs(T, acc) ==
    IF T = <<>> THEN <<acc>>
    ELSE IF Head(T).sep = "\n\n" /\ Len(T) > 1
    THEN <<Append(acc, Head(T))>> \o SplitParagraphs(Tail(T), <<>>)
    ELSE SplitParagraphs(Tail(T), Append(acc, Head(T)))

\* Line 79: re.split(r'(?<=[.!?])\s+', para), a split after every word that
\* ends with a full stop.
RECURSIVE SplitSentences(_, _)
SplitSentences(P, acc) ==
    IF P = <<>> THEN (IF acc = <<>> THEN <<>> ELSE <<acc>>)
    ELSE IF Head(P).end
    THEN <<Append(acc, Head(P))>> \o SplitSentences(Tail(P), <<>>)
    ELSE SplitSentences(Tail(P), Append(acc, Head(P)))

\* Lines 101-110: the loop over the words of a sentence.
RECURSIVE WordLoop(_, _, _)
WordLoop(words, max_tokens, st) ==
    IF words = <<>> THEN st
    ELSE LET word == Head(words)
             word_token == estimate_word_tokens(word)
         IN WordLoop(Tail(words), max_tokens,
              IF st.word_tokens + word_token <= max_tokens
              THEN [st EXCEPT !.word_chunk = Append(@, word),
                              !.word_tokens = @ + word_token]
              ELSE [chunks |-> IF st.word_chunk # <<>>
                               THEN Append(st.chunks, st.word_chunk)
                               ELSE st.chunks,
                    word_chunk |-> <<word>>,
                    word_tokens |-> word_token])

\* Lines 96-113: the chunks of a sentence split by words.
WordChunks(sentence, max_tokens) ==
    LET st == WordLoop(sentence, max_tokens,
                       [chunks |-> <<>>, word_chunk |-> <<>>,
                        word_tokens |-> 0])
    IN IF st.word_chunk # <<>> THEN Append(st.chunks, st.word_chunk)
       ELSE st.chunks

\* Lines 83-122: the loop over the sentences of a paragraph.
RECURSIVE SentenceLoop(_, _, _)
SentenceLoop(sentences, max_tokens, st) ==
    IF sentences = <<>> THEN st
    ELSE LET sentence == Head(sentences)
             sentence_tokens == estimate_tokens(sentence)
             flushed == IF st.sent_chunk # <<>>
                        THEN Append(st.chunks, st.sent_chunk) ELSE st.chunks
         IN SentenceLoop(Tail(sentences), max_tokens,
              IF sentence_tokens > max_tokens
              THEN [chunks |-> flushed \o WordChunks(sentence, max_tokens),
                    sent_chunk |-> IF st.sent_chunk # <<>> THEN <<>>
                                   ELSE st.sent_chunk,
                    sent_tokens |-> IF st.sent_chunk # <<>> THEN 0
                                    ELSE st.sent_tokens]
              ELSE IF st.sent_tokens + sentence_tokens <= max_tokens
              THEN [st EXCEPT !.sent_chunk = @ \o sentence,
                              !.sent_tokens = @ + sentence_tokens]
              ELSE [chunks |-> flushed, sent_chunk |-> sentence,
                    sent_tokens |-> sentence_tokens])

\* Lines 79-125: the chunks of a paragraph split by sentences.
SentenceChunks(para, max_tokens) ==
    LET st == SentenceLoop(SplitSentences(para, <<>>), max_tokens,
                           [chunks |-> <<>>, sent_chunk |-> <<>>,
                            sent_tokens |-> 0])
    IN IF st.sent_chunk # <<>> THEN Append(st.chunks, st.sent_chunk)
       ELSE st.chunks

\* Lines 70-137: the loop over the paragraphs.
RECURSIVE ParagraphLoop(_, _, _)
ParagraphLoop(paragraphs, max_tokens, st) ==
    IF paragraphs = <<>> THEN st
    ELSE LET para == Head(paragraphs)
             para_tokens == estimate_tokens(para)
         IN ParagraphLoop(Tail(paragraphs), max_tokens,
              IF StrLen(para) < min_paragraph_length THEN st
              ELSE IF para_tokens > max_tokens
              THEN [st EXCEPT !.chunks = @ \o SentenceChunks(para, max_tokens)]
              ELSE IF st.current_token_count + para_tokens <= max_tokens
              THEN [st EXCEPT !.current_chunk = @ \o para,
                              !.current_token_count = @ + para_tokens]
              ELSE [chunks |-> IF st.current_chunk # <<>>
                               THEN Append(st.chunks, st.current_chunk)
                               ELSE st.chunks,
                    current_chunk |-> para,
                    current_token_count |-> para_tokens])

\* Lines 61-141: the chunks of the primary pass.
PrimaryChunks(text, max_tokens) ==
    LET st == ParagraphLoop(SplitParagraphs(clean_text(text), <<>>),
                            max_tokens,
                            [chunks |-> <<>>, current_chunk |-> <<>>,
                             current_token_count |-> 0])
    IN IF st.current_chunk # <<>> THEN Append(st.chunks, st.current_chunk)
       ELSE st.chunks

\* The string of a chunk as runs of equal characters: [ch, k] is the
\* character ch written k times.  Neighbouring runs differ in character.
RECURSIVE Runs(_)
Runs(W) ==
    IF W = <<>> THEN <<>>
    ELSE LET w == Head(W) IN
         <<[ch |-> w.c, k |-> w.n]>>
         \o (IF w.end THEN <<[ch |-> ".", k |-> 1]>> ELSE <<>>)
         \o (IF Len(W) > 1 THEN <<[ch |-> " ", k |-> 1]>> ELSE <<>>)
         \o Runs(Tail(W))

\* a in b for two strings given as runs.
IsSubstring(a, b) ==
    \/ a = <<>>
    \/ \E o \in 0 .. Len(b) - Len(a) :
         \A i \in 1 .. Len(a) :
            /\ a[i].ch = b[o + i].ch
            /\ IF i = 1 \/ i = Len(a) THEN a[i].k <= b[o + i].k
               ELSE a[i].k = b[o + i].k

\* A comparison that finds no chunk similar to another.
IsDuplicateNever(chunk, existing) == FALSE

\* Lines 164-169: chunk is a near-duplicate of existing.
IsDuplicate(chunk, existing) ==
    /\ \/ IsSubstring(Runs(chunk), Runs(existing))
       \/ IsSubstring(Runs(existing), Runs(chunk))
    /\ 10 * Min(StrLen(chunk), StrLen(existing))
         > 7 * Max(StrLen(chunk), StrLen(existing))

\* A chunk of any length is kept.
TooShortNever(chunk) == FALSE

\* Lines 158-160: the chunk is very short.
TooShort(chunk) == StrLen(chunk) < min_chunk_length

\* Lines 156-172: the removal of short chunks and near-duplicates.
RECURSIVE Deduplicate(_, _)
Deduplicate(final_chunks, deduplicated) ==
    IF final_chunks = <<>> THEN deduplicated
    ELSE LET chunk == Head(final_chunks) IN
         Deduplicate(Tail(final_chunks),
            IF TooShort(chunk) THEN deduplicated
            ELSE IF \E e \in DOMAIN deduplicated :
                       IsDuplicate(chunk, deduplicated[e])
            THEN deduplicated
            ELSE Append(deduplicated, chunk))

\* A chunk the post-pass never splits again.
ExceedsModelLimitNever(chunk) == FALSE

\* Lines 146-147: the chunk is over the limit of the model.
ExceedsModelLimit(chunk) == estimate_tokens(chunk) > MODEL_MAX_TOKENS

\* An activation of chunk_text after its primary pass: i is the position
\* of the post-pass in chunks.  ck.stack holds the activations, the
\* outermost first, and ck.resplits counts the recursive calls made.
Frame(text, max_tokens) ==
    [text |-> text, max_tokens |-> max_tokens,
     chunks |-> PrimaryChunks(text, max_tokens), i |-> 1,
     final_chunks |-> <<>>]

CkIdle ==
    [pc |-> "idle", text |-> <<>>, max_tokens |-> 0, stack |-> <<>>,
     resplits |-> 0, result |-> <<>>]

Top == ck.stack[Len(ck.stack)]

\* Lines 145-153: the post-pass keeps the chunk.
PostPassKeep ==
    /\ ck.pc = "run"
    /\ Top.i <= Len(Top.chunks)
    /\ ~ExceedsModelLimit(Top.chunks[Top.i])
    /\ ck' = [ck EXCEPT !.stack[Len(ck.stack)] =
                 [@ EXCEPT !.final_chunks = Append(@, Top.chunks[Top.i]),
                           !.i = @ + 1]]

\* Lines 147-150: the post-pass calls chunk_text on the chunk with half
\* the max_tokens.  A call with the arguments of its caller would go on
\* for ever; the interpreter ends it with a RecursionError.
PostPassResplit ==
    /\ ck.pc = "run"
    /\ Top.i <= Len(Top.chunks)
    /\ ExceedsModelLimit(Top.chunks[Top.i])
    /\ LET chunk == Top.chunks[Top.i]
           half == Top.max_tokens \div 2
       IN IF chunk = Top.text /\ half = Top.max_tokens
          THEN ck' = [ck EXCEPT !.pc = "RecursionError"]
          ELSE ck' = [ck EXCEPT !.stack = Append(@, Frame(chunk, half)),
                                !.resplits = @ + 1]

\* Lines 155-175 and 151: the call at the top returns its deduplicated
\* chunks, to its caller's final_chunks when it is a recursive call.
ChunkTextReturn ==
    /\ ck.pc = "run"
    /\ Top.i > Len(Top.chunks)
    /\ LET d == Len(ck.stack)
           ret == Deduplicate(Top.final_chunks, <<>>)
       IN IF d = 1
          THEN ck' = [ck EXCEPT !.pc = "returned", !.stack = <<>>,
                                !.result = ret]
          ELSE ck' = [ck EXCEPT
                        !.stack = [SubSeq(ck.stack, 1, d - 1) EXCEPT
                                     ![d - 1] =
                                        [@ EXCEPT !.final_chunks = @ \o ret,
                                                  !.i = @ + 1]]]

ChunkerIdle == ck = CkIdle

(***************************************************************************)
(* EmbeddingFunction.validate_embedding on the list of values itself.  A   *)
(* list of floats is written as its runs: [v, n] is the value v repeated n *)
(* times.                                                                  *)
(***************************************************************************)
\* v == 0 for a float v.
IsZero(v) == v \in {"0.0", "-0.0"}

RECURSIVE VecLen(_)
\* len(embedding)
VecLen(embedding) ==
    IF embedding = <<>> THEN 0
    ELSE Head(embedding).n + VecLen(Tail(embedding))

\* validate_embedding without its test for the all-zero list.
validate_embedding_unzeroed(embedding) ==
    IF embedding = <<>> THEN FALSE
    ELSE IF VecLen(embedding) # D THEN FALSE
    ELSE TRUE

\* Lines 249-256, test by test.
validate_embedding_values(embedding) ==
    IF embedding = <<>> THEN FALSE
    ELSE IF VecLen(embedding) # D THEN FALSE
    ELSE IF \A i \in DOMAIN embedding : IsZero(embedding[i].v) THEN FALSE
    ELSE TRUE

\* The length and the number of non-zero components of a list of values:
\* what the other operations of the model know of an embedding.
ShapeOf(embedding) ==
    [len |-> VecLen(embedding),
     nz |-> VecLen(SelectSeq(embedding, LAMBDA r : ~IsZero(r.v)))]

VaIdle == [pc |-> "idle", embedding |-> <<>>, result |-> FALSE]

ValidateReturn ==
    /\ va.pc = "call"
    /\ va' = [va EXCEPT !.pc = "returned",
                        !.result = validate_embedding_values(va.embedding)]

\* The task modes of the embedding requests (lines 104 and 188).
Modes == {"RETRIEVAL_QUERY", "RETRIEVAL_DOCUMENT"}

Procs == 1 .. MaxProcs

ProcIdle == [pc |-> "idle", mode |-> "", pos |-> 0, got |-> "", wrote |-> FALSE]

\* No cache file yet, and no process embedding its text.
CacheFileNew(lens) ==
    /\ disk = [exists |-> FALSE, data |-> <<>>]
    /\ proc = [p \in Procs |-> ProcIdle]
    /\ serialLen = lens

CacheFileIdle == CacheFileNew([m \in Modes |-> 1])

ValidatorIdle == va = VaIdle

(***************************************************************************)
(* The vector index client driven on its own: initialize and uploads       *)
(* against an index that starts empty.                                     *)
(***************************************************************************)
UploadLens == 0 .. MaxUpload

CallInitialize ==
    /\ up.pc = "idle" /\ ini.pc = "idle"
    /\ ini' = IniBegin
    /\ UNCHANGED <<vsm, remoteIndex, up>>

InitializeDone ==
    /\ up.pc = "idle" /\ ini.pc \in {"returned", "raised"}
    /\ ini' = IniIdle
    /\ UNCHANGED <<vsm, remoteIndex, up>>

CallUpload ==
    /\ up.pc = "idle" /\ ini.pc = "idle"
    /\ remoteIndex = {}
    /\ \E n \in UploadLens, m \in UploadLens :
         /\ m \in {n - 1, n, n + 1}
         /\ UpBegin(n, m)
    /\ UNCHANGED <<vsm, remoteIndex>>

UploadDone ==
    /\ up.pc \in {"returned", "raised"}
    /\ up' = UpIdle
    /\ UNCHANGED <<vsm, remoteIndex, ini>>

IndexClientIdle ==
    /\ \E deployed \in {"none", "env"} : vsm = VsmNew(deployed)
    /\ remoteIndex = {}
    /\ ini = IniIdle
    /\ up = UpIdle

(***************************************************************************)
(* The embedding client driven on its own.                                 *)
(***************************************************************************)
EmbedTexts == 1 .. MaxEmbedTexts

\* The token estimates the texts are given: all short, or all so long that
\* two of them exceed the token budget of a batch.
TokenProfiles(T) == { [t \in T |-> 100], [t \in T |-> 5000] }

CallEmbedQuery ==
    /\ eq.pc = "idle" /\ ed.pc = "idle"
    /\ request_count < MaxRequests
    /\ \E t \in EmbedTexts : EqBegin(t)
    /\ UNCHANGED <<ed, svcPlan>>

\* The caller takes the outcome of the call; seen keeps, for each text, the
\* vector the last embed_query of that text returned.
EmbedQueryDone ==
    /\ eq.pc \in {"returned", "raised"}
    /\ eq' = [EqIdle EXCEPT !.seen = IF eq.pc = "returned"
                                     THEN Put(eq.seen, eq.text, eq.result[1])
                                     ELSE eq.seen]
    /\ UNCHANGED <<cache, fileCache, request_count, tok, svcBad, svcPlan, ed>>

\* embed_documents is called with the texts 1..n or n..1.
CallEmbedDocuments ==
    /\ eq.pc = "idle" /\ ed.pc = "idle"
    /\ request_count < MaxRequests
    /\ \E n \in 0 .. MaxEmbedTexts, rev \in BOOLEAN :
         EdBegin([i \in 1 .. n |-> IF rev THEN n + 1 - i ELSE i])
    /\ UNCHANGED <<eq, svcPlan>>

EmbedDocumentsDone ==
    /\ ed.pc \in {"returned", "raised"}
    /\ ed' = EdIdle
    /\ UNCHANGED <<cache, fileCache, request_count, tok, svcBad, svcPlan, eq>>

EmbedClientNew ==
    /\ svcPlan = FreePlan
    /\ cache = EmptyMap
    /\ request_count = 0
    /\ eq = EqIdle
    /\ ed = EdIdle

EmbedClientInit ==
    /\ EmbedClientNew
    /\ fileCache = EmptyMap
    /\ tok = [t \in EmbedTexts |-> 100]
    /\ svcBad = {}

InitEmbed ==
    /\ EmbedClientNew
    /\ fileCache = EmptyMap
    /\ tok \in TokenProfiles(EmbedTexts)
    /\ svcBad \in {{}, {1}}
    /\ IndexClientIdle
    /\ StoreNew
    /\ RetrieverIdle
    /\ ChunkerIdle
    /\ ValidatorIdle
    /\ CacheFileIdle
    /\ ManagerIdle

NextEmbed ==
    \/ CallEmbedQuery /\ UNCHANGED <<indexVars, storeVars, retrVars, chunkVars, validVars, raceVars, mgrVars>>
    \/ EmbedQueryOk /\ UNCHANGED <<indexVars, storeVars, retrVars, chunkVars, validVars, raceVars, mgrVars>>
    \/ EmbedQueryError /\ UNCHANGED <<indexVars, storeVars, retrVars, chunkVars, validVars, raceVars, mgrVars>>
    \/ EmbedQueryDone /\ UNCHANGED <<indexVars, storeVars, retrVars, chunkVars, validVars, raceVars, mgrVars>>
    \/ CallEmbedDocuments /\ UNCHANGED <<indexVars, storeVars, retrVars, chunkVars, validVars, raceVars, mgrVars>>
    \/ EmbedDocumentsOk /\ UNCHANGED <<indexVars, storeVars, retrVars, chunkVars, validVars, raceVars, mgrVars>>
    \/ EmbedDocumentsError /\ UNCHANGED <<indexVars, storeVars, retrVars, chunkVars, validVars, raceVars, mgrVars>>
    \/ EmbedDocumentsDone /\ UNCHANGED <<indexVars, storeVars, retrVars, chunkVars, validVars, raceVars, mgrVars>>

SpecEmbed == InitEmbed /\ [][NextEmbed]_vars

InitUpload ==
    /\ EmbedClientInit
    /\ IndexClientIdle
    /\ StoreNew
    /\ RetrieverIdle
    /\ ChunkerIdle
    /\ ValidatorIdle
    /\ CacheFileIdle
    /\ ManagerIdle

(***************************************************************************)
(* The corpus build: create_and_upload on a new VectorStore.               *)
(***************************************************************************)
BuildSizes == {0, 1, 2, MaxBuildTexts}

CallCreateAndUpload ==
    /\ cu.pc = "idle"
    /\ docstore = EmptyMap
    /\ CuBegin([i \in 1 .. Len(tok) |-> i])

CreateAndUploadDone ==
    /\ cu.pc \in {"returned", "raised"}
    /\ cu' = [CuIdle EXCEPT !.pc = "done"]
    /\ UNCHANGED <<embedVars, indexVars, docstore, index_to_docstore_id>>

InitBuild ==
    /\ cache = EmptyMap /\ request_count = 0 /\ eq = EqIdle /\ ed = EdIdle
    /\ svcPlan = IdlePlan
    /\ fileCache = EmptyMap
    /\ \E n \in BuildSizes :
         /\ tok \in {[t \in 1 .. n |-> 100]}
         /\ svcBad \in {{}}
    /\ IndexClientIdle
    /\ StoreNew
    /\ RetrieverIdle
    /\ ChunkerIdle
    /\ ValidatorIdle
    /\ CacheFileIdle
    /\ ManagerIdle

NextBuild ==
    \/ CallCreateAndUpload /\ UNCHANGED <<retrVars, chunkVars, validVars, raceVars, mgrVars>>
    \/ BuildEmbedReturned /\ UNCHANGED <<retrVars, chunkVars, validVars, raceVars, mgrVars>>
    \/ BuildEmbedRaised /\ UNCHANGED <<retrVars, chunkVars, validVars, raceVars, mgrVars>>
    \/ BuildUploadReturned /\ UNCHANGED <<retrVars, chunkVars, validVars, raceVars, mgrVars>>
    \/ BuildUploadRaised /\ UNCHANGED <<retrVars, chunkVars, validVars, raceVars, mgrVars>>
    \/ CreateAndUploadDone /\ UNCHANGED <<retrVars, chunkVars, validVars, raceVars, mgrVars>>
    \/ EmbedDocumentsOk /\ UNCHANGED <<indexVars, storeVars, retrVars, chunkVars, validVars, raceVars, mgrVars>>
    \/ EmbedDocumentsError /\ UNCHANGED <<indexVars, storeVars, retrVars, chunkVars, validVars, raceVars, mgrVars>>
    \/ InitializeOk /\ UNCHANGED <<embedVars, storeVars, retrVars, chunkVars, validVars, raceVars, mgrVars>>
    \/ InitializeError /\ UNCHANGED <<embedVars, storeVars, retrVars, chunkVars, validVars, raceVars, mgrVars>>
    \/ UploadAfterInitialize /\ UNCHANGED <<embedVars, storeVars, retrVars, chunkVars, validVars, raceVars, mgrVars>>
    \/ UpsertOk /\ UNCHANGED <<embedVars, storeVars, retrVars, chunkVars, validVars, raceVars, mgrVars>>
    \/ UpsertError /\ UNCHANGED <<embedVars, storeVars, retrVars, chunkVars, validVars, raceVars, mgrVars>>

SpecBuild == InitBuild /\ [][NextBuild]_vars

NextUpload ==
    \/ CallInitialize /\ UNCHANGED <<embedVars, storeVars, retrVars, chunkVars, validVars, raceVars, mgrVars>>
    \/ InitializeOk /\ UNCHANGED <<embedVars, storeVars, retrVars, chunkVars, validVars, raceVars, mgrVars>>
    \/ InitializeError /\ UNCHANGED <<embedVars, storeVars, retrVars, chunkVars, validVars, raceVars, mgrVars>>
    \/ InitializeDone /\ UNCHANGED <<embedVars, storeVars, retrVars, chunkVars, validVars, raceVars, mgrVars>>
    \/ CallUpload /\ UNCHANGED <<embedVars, storeVars, retrVars, chunkVars, validVars, raceVars, mgrVars>>
    \/ UploadAfterInitialize /\ UNCHANGED <<embedVars, storeVars, retrVars, chunkVars, validVars, raceVars, mgrVars>>
    \/ UpsertOk /\ UNCHANGED <<embedVars, storeVars, retrVars, chunkVars, validVars, raceVars, mgrVars>>
    \/ UpsertError /\ UNCHANGED <<embedVars, storeVars, retrVars, chunkVars, validVars, raceVars, mgrVars>>
    \/ UploadDone /\ UNCHANGED <<embedVars, storeVars, retrVars, chunkVars, validVars, raceVars, mgrVars>>

SpecUpload == InitUpload /\ [][NextUpload]_vars

(***************************************************************************)
(* Retrieval: a small corpus is built, and a query is served either by the *)
(* store that was built or by the store a serving process loads.  The      *)
(* embedding service answers every request of the build (SpecBuild has the *)
(* builds it fails); the index service and the embedding of the query may  *)
(* fail.                                                                   *)
(***************************************************************************)
StoreSizes == 0 .. MaxStoreTexts

QueryTexts == 0 .. MaxQueryText

TopKs == {1, 5}

CallInvoke ==
    /\ rt.pc = "idle" /\ cu.pc \in {"idle", "done"}
    /\ \E q \in QueryTexts, k \in TopKs :
         RtCallEmbed([RtIdle EXCEPT !.query = q, !.k = k])

InvokeDone ==
    /\ rt.pc \in {"returned", "raised"}
    /\ rt' = [RtIdle EXCEPT !.pc = "done"]
    /\ UNCHANGED <<embedVars, indexVars, storeVars, se, vectorstore>>

InitRetrieve ==
    /\ cache = EmptyMap /\ request_count = 0 /\ eq = EqIdle /\ ed = EdIdle
    /\ svcPlan = IdlePlan
    /\ fileCache = EmptyMap
    /\ \E n \in StoreSizes : tok = [t \in 1 .. n |-> 100]
    /\ svcBad \in {{}, {1}}
    /\ IndexClientIdle
    /\ StoreNew
    /\ RetrieverIdle
    /\ ChunkerIdle
    /\ ValidatorIdle
    /\ CacheFileIdle
    /\ ManagerIdle

NextRetrieve ==
    \/ CallCreateAndUpload /\ rt.pc = "idle" /\ vectorstore = "None"
          /\ svcPlan' = IdlePlan /\ UNCHANGED <<retrVars, chunkVars, validVars, raceVars, mgrVars>>
    \/ BuildEmbedReturned /\ svcPlan' = IdlePlan /\ UNCHANGED <<retrVars, chunkVars, validVars, raceVars, mgrVars>>
    \/ BuildUploadReturned /\ UNCHANGED <<retrVars, chunkVars, validVars, raceVars, mgrVars>>
    \/ BuildUploadRaised /\ UNCHANGED <<retrVars, chunkVars, validVars, raceVars, mgrVars>>
    \/ CreateAndUploadDone /\ UNCHANGED <<retrVars, chunkVars, validVars, raceVars, mgrVars>>
    \/ EmbedDocumentsOk /\ UNCHANGED <<indexVars, storeVars, retrVars, chunkVars, validVars, raceVars, mgrVars>>
    \/ InitializeOk /\ UNCHANGED <<embedVars, storeVars, retrVars, chunkVars, validVars, raceVars, mgrVars>>
    \/ InitializeError /\ UNCHANGED <<embedVars, storeVars, retrVars, chunkVars, validVars, raceVars, mgrVars>>
    \/ UploadAfterInitialize /\ UNCHANGED <<embedVars, storeVars, retrVars, chunkVars, validVars, raceVars, mgrVars>>
    \/ UpsertOk /\ UNCHANGED <<embedVars, storeVars, retrVars, chunkVars, validVars, raceVars, mgrVars>>
    \/ UpsertError /\ UNCHANGED <<embedVars, storeVars, retrVars, chunkVars, validVars, raceVars, mgrVars>>
    \/ initialize_vectorstore /\ UNCHANGED <<chunkVars, validVars, raceVars, mgrVars>>
    \/ AsRetriever /\ UNCHANGED <<chunkVars, validVars, raceVars, mgrVars>>
    \/ CallInvoke /\ UNCHANGED <<chunkVars, validVars, raceVars, mgrVars>>
    \/ EmbedQueryOk /\ UNCHANGED <<indexVars, storeVars, retrVars, chunkVars, validVars, raceVars, mgrVars>>
    \/ EmbedQueryError /\ UNCHANGED <<indexVars, storeVars, retrVars, chunkVars, validVars, raceVars, mgrVars>>
    \/ InvokeEmbedReturned /\ UNCHANGED <<chunkVars, validVars, raceVars, mgrVars>>
    \/ InvokeEmbedRaised /\ UNCHANGED <<chunkVars, validVars, raceVars, mgrVars>>
    \/ SearchAfterInitialize /\ UNCHANGED <<embedVars, storeVars, chunkVars, validVars, raceVars, mgrVars>>
    \/ FindNeighborsOk /\ UNCHANGED <<embedVars, storeVars, chunkVars, validVars, raceVars, mgrVars>>
    \/ FindNeighborsError /\ UNCHANGED <<embedVars, storeVars, chunkVars, validVars, raceVars, mgrVars>>
    \/ InvokeSearchReturned /\ UNCHANGED <<chunkVars, validVars, raceVars, mgrVars>>
    \/ InvokeSearchRaised /\ UNCHANGED <<chunkVars, validVars, raceVars, mgrVars>>
    \/ InvokeDone /\ UNCHANGED <<chunkVars, validVars, raceVars, mgrVars>>

SpecRetrieve == InitRetrieve /\ [][NextRetrieve]_vars

(***************************************************************************)
(* The retriever and the index client of a store that was not built:       *)
(* before and after a query is served, upload_embeddings is called on the  *)
(* client directly, with lists of ids and of embeddings of equal or of     *)
(* different lengths, and initialize is called on it directly.             *)
(***************************************************************************)
DirectLens == 0 .. MaxDirectUpload

CallUploadDirect ==
    /\ rt.pc \in {"idle", "returned", "raised"}
    /\ up.pc = "idle" /\ ini.pc = "idle"
    /\ \E n \in DirectLens, m \in 0 .. MaxDirectUpload + 1 :
         /\ m \in {n - 1, n, n + 1}
         /\ UpBegin(n, m)
    /\ UNCHANGED <<vsm, remoteIndex>>

CallInvokeDirect ==
    /\ up.pc = "idle" /\ ini.pc = "idle"
    /\ CallInvoke

CallInitializeDirect ==
    /\ rt.pc \in {"idle", "returned", "raised"}
    /\ CallInitialize

InitializeDoneDirect ==
    /\ se.pc # "init"
    /\ InitializeDone

InitFailFast ==
    /\ cache = EmptyMap /\ request_count = 0 /\ eq = EqIdle /\ ed = EdIdle
    /\ svcPlan = IdlePlan
    /\ fileCache = EmptyMap
    /\ tok = <<>>
    /\ svcBad \in {{}, {1}}
    /\ IndexClientIdle
    /\ StoreNew
    /\ RetrieverIdle
    /\ ChunkerIdle
    /\ ValidatorIdle
    /\ CacheFileIdle
    /\ ManagerIdle

NextFailFast ==
    \/ CallUploadDirect /\ UNCHANGED <<embedVars, storeVars, retrVars, chunkVars, validVars, raceVars, mgrVars>>
    \/ CallInitializeDirect /\ UNCHANGED <<embedVars, storeVars, retrVars, chunkVars, validVars, raceVars, mgrVars>>
    \/ InitializeDoneDirect /\ UNCHANGED <<embedVars, storeVars, retrVars, chunkVars, validVars, raceVars, mgrVars>>
    \/ InitializeOk /\ UNCHANGED <<embedVars, storeVars, retrVars, chunkVars, validVars, raceVars, mgrVars>>
    \/ InitializeError /\ UNCHANGED <<embedVars, storeVars, retrVars, chunkVars, validVars, raceVars, mgrVars>>
    \/ UploadAfterInitialize /\ UNCHANGED <<embedVars, storeVars, retrVars, chunkVars, validVars, raceVars, mgrVars>>
    \/ UpsertOk /\ UNCHANGED <<embedVars, storeVars, retrVars, chunkVars, validVars, raceVars, mgrVars>>
    \/ UpsertError /\ UNCHANGED <<embedVars, storeVars, retrVars, chunkVars, validVars, raceVars, mgrVars>>
    \/ UploadDone /\ UNCHANGED <<embedVars, storeVars, retrVars, chunkVars, validVars, raceVars, mgrVars>>
    \/ CallInvokeDirect /\ UNCHANGED <<chunkVars, validVars, raceVars, mgrVars>>
    \/ EmbedQueryOk /\ UNCHANGED <<indexVars, storeVars, retrVars, chunkVars, validVars, raceVars, mgrVars>>
    \/ EmbedQueryError /\ UNCHANGED <<indexVars, storeVars, retrVars, chunkVars, validVars, raceVars, mgrVars>>
    \/ InvokeEmbedReturned /\ UNCHANGED <<chunkVars, validVars, raceVars, mgrVars>>
    \/ InvokeEmbedRaised /\ UNCHANGED <<chunkVars, validVars, raceVars, mgrVars>>
    \/ SearchAfterInitialize /\ UNCHANGED <<embedVars, storeVars, chunkVars, validVars, raceVars, mgrVars>>
    \/ FindNeighborsOk /\ UNCHANGED <<embedVars, storeVars, chunkVars, validVars, raceVars, mgrVars>>
    \/ FindNeighborsError /\ UNCHANGED <<embedVars, storeVars, chunkVars, validVars, raceVars, mgrVars>>
    \/ InvokeSearchReturned /\ UNCHANGED <<chunkVars, validVars, raceVars, mgrVars>>
    \/ InvokeSearchRaised /\ UNCHANGED <<chunkVars, validVars, raceVars, mgrVars>>
    \/ InvokeDone /\ UNCHANGED <<chunkVars, validVars, raceVars, mgrVars>>

SpecFailFast == InitFailFast /\ [][NextFailFast]_vars

(***************************************************************************)
(* The retry loops, each client driven alone: the embedding client is      *)
(* called only while the index client is as constructed, and the index     *)
(* client is called, for one upload or one search at a time, only while    *)
(* the embedding client is as constructed.                                 *)
(***************************************************************************)
CallEmbedQueryAlone ==
    /\ IndexClientIdle /\ se = SeIdle
    /\ CallEmbedQuery

CallEmbedDocumentsAlone ==
    /\ IndexClientIdle /\ se = SeIdle
    /\ CallEmbedDocuments

CallUploadAlone ==
    /\ EmbedClientNew /\ se = SeIdle
    /\ CallUploadDirect

\* Lines 162-165 of vector_search_manager: a call of search.
CallSearchAlone ==
    /\ EmbedClientNew
    /\ se = SeIdle /\ up.pc = "idle" /\ ini.pc = "idle" /\ rt.pc = "idle"
    /\ \E k \in TopKs : SeBegin(k)
    /\ UNCHANGED <<vsm, remoteIndex, up, rt, vectorstore>>

SearchDone ==
    /\ rt.pc = "idle"
    /\ se.pc \in {"returned", "raised"}
    /\ se' = SeIdle
    /\ UNCHANGED <<vsm, remoteIndex, ini, up, rt, vectorstore>>

InitAttempts ==
    /\ InitUpload

NextAttempts ==
    \/ CallEmbedQueryAlone /\ UNCHANGED <<indexVars, storeVars, retrVars, chunkVars, validVars, raceVars, mgrVars>>
    \/ EmbedQueryOk /\ UNCHANGED <<indexVars, storeVars, retrVars, chunkVars, validVars, raceVars, mgrVars>>
    \/ EmbedQueryError /\ UNCHANGED <<indexVars, storeVars, retrVars, chunkVars, validVars, raceVars, mgrVars>>
    \/ EmbedQueryDone /\ UNCHANGED <<indexVars, storeVars, retrVars, chunkVars, validVars, raceVars, mgrVars>>
    \/ CallEmbedDocumentsAlone /\ UNCHANGED <<indexVars, storeVars, retrVars, chunkVars, validVars, raceVars, mgrVars>>
    \/ EmbedDocumentsOk /\ UNCHANGED <<indexVars, storeVars, retrVars, chunkVars, validVars, raceVars, mgrVars>>
    \/ EmbedDocumentsError /\ UNCHANGED <<indexVars, storeVars, retrVars, chunkVars, validVars, raceVars, mgrVars>>
    \/ EmbedDocumentsDone /\ UNCHANGED <<indexVars, storeVars, retrVars, chunkVars, validVars, raceVars, mgrVars>>
    \/ CallUploadAlone /\ UNCHANGED <<embedVars, storeVars, retrVars, chunkVars, validVars, raceVars, mgrVars>>
    \/ InitializeOk /\ UNCHANGED <<embedVars, storeVars, retrVars, chunkVars, validVars, raceVars, mgrVars>>
    \/ InitializeError /\ UNCHANGED <<embedVars, storeVars, retrVars, chunkVars, validVars, raceVars, mgrVars>>
    \/ UploadAfterInitialize /\ UNCHANGED <<embedVars, storeVars, retrVars, chunkVars, validVars, raceVars, mgrVars>>
    \/ UpsertOk /\ UNCHANGED <<embedVars, storeVars, retrVars, chunkVars, validVars, raceVars, mgrVars>>
    \/ UpsertError /\ UNCHANGED <<embedVars, storeVars, retrVars, chunkVars, validVars, raceVars, mgrVars>>
    \/ UploadDone /\ UNCHANGED <<embedVars, storeVars, retrVars, chunkVars, validVars, raceVars, mgrVars>>
    \/ CallSearchAlone /\ UNCHANGED <<embedVars, storeVars, chunkVars, validVars, raceVars, mgrVars>>
    \/ SearchAfterInitialize /\ UNCHANGED <<embedVars, storeVars, chunkVars, validVars, raceVars, mgrVars>>
    \/ FindNeighborsOk /\ UNCHANGED <<embedVars, storeVars, chunkVars, validVars, raceVars, mgrVars>>
    \/ FindNeighborsError /\ UNCHANGED <<embedVars, storeVars, chunkVars, validVars, raceVars, mgrVars>>
    \/ SearchDone /\ UNCHANGED <<embedVars, storeVars, chunkVars, validVars, raceVars, mgrVars>>

SpecAttempts == InitAttempts /\ [][NextAttempts]_vars

(***************************************************************************)
(* One VectorStore on which create_and_upload is called again and again,   *)
(* each time with the first n texts of a small corpus.                     *)
(***************************************************************************)
CallCreateAndUploadAgain ==
    /\ cu.pc \in {"idle", "done"}
    /\ request_count < MaxRebuildRequests
    /\ \E n \in 0 .. Len(tok) : CuBegin([i \in 1 .. n |-> i])

InitRebuild ==
    /\ InitRetrieve
    /\ Len(tok) = MaxStoreTexts

NextRebuild ==
    \/ CallCreateAndUploadAgain /\ UNCHANGED <<retrVars, chunkVars, validVars, raceVars, mgrVars>>
    \/ BuildEmbedReturned /\ UNCHANGED <<retrVars, chunkVars, validVars, raceVars, mgrVars>>
    \/ BuildEmbedRaised /\ UNCHANGED <<retrVars, chunkVars, validVars, raceVars, mgrVars>>
    \/ BuildUploadReturned /\ UNCHANGED <<retrVars, chunkVars, validVars, raceVars, mgrVars>>
    \/ BuildUploadRaised /\ UNCHANGED <<retrVars, chunkVars, validVars, raceVars, mgrVars>>
    \/ CreateAndUploadDone /\ UNCHANGED <<retrVars, chunkVars, validVars, raceVars, mgrVars>>
    \/ EmbedDocumentsOk /\ UNCHANGED <<indexVars, storeVars, retrVars, chunkVars, validVars, raceVars, mgrVars>>
    \/ EmbedDocumentsError /\ UNCHANGED <<indexVars, storeVars, retrVars, chunkVars, validVars, raceVars, mgrVars>>
    \/ InitializeOk /\ UNCHANGED <<embedVars, storeVars, retrVars, chunkVars, validVars, raceVars, mgrVars>>
    \/ InitializeError /\ UNCHANGED <<embedVars, storeVars, retrVars, chunkVars, validVars, raceVars, mgrVars>>
    \/ UploadAfterInitialize /\ UNCHANGED <<embedVars, storeVars, retrVars, chunkVars, validVars, raceVars, mgrVars>>
    \/ UpsertOk /\ UNCHANGED <<embedVars, storeVars, retrVars, chunkVars, validVars, raceVars, mgrVars>>
    \/ UpsertError /\ UNCHANGED <<embedVars, storeVars, retrVars, chunkVars, validVars, raceVars, mgrVars>>

SpecRebuild == InitRebuild /\ [][NextRebuild]_vars

(***************************************************************************)
(* The chunker driven on its own.                                          *)
(***************************************************************************)
Letters == {"a", "b"}

\* The lengths of the words: a short word, two words longer than the
\* shortest chunk of which one is 70% of the other, a word of half the
\* model limit and a word over the model limit.
WordLens == {3, 140, 200, 30004, 60004}

Words ==
    [c : Letters, n : WordLens, end : BOOLEAN, sep : {" ", "\n\n"}]

Texts ==
    { T \in UNION { [1 .. n -> Words] : n \in 0 .. MaxWords } :
        T # <<>> => T[Len(T)].sep = " " }

MaxTokenArgs == {25, SAFE_TARGET_CHUNK_TOKENS, 20000}

\* Lines 56-59: a call of chunk_text; the empty text returns at once.
CallChunkText ==
    /\ ck.pc = "idle"
    /\ \E text \in Texts, max_tokens \in MaxTokenArgs :
         ck' = IF text = <<>>
               THEN [CkIdle EXCEPT !.pc = "returned", !.text = text,
                                   !.max_tokens = max_tokens]
               ELSE [CkIdle EXCEPT !.pc = "run", !.text = text,
                                   !.max_tokens = max_tokens,
                                   !.stack = <<Frame(text, max_tokens)>>]

ChunkTextDone ==
    /\ ck.pc \in {"returned", "RecursionError"}
    /\ ck' = CkIdle

InitChunk ==
    /\ EmbedClientInit
    /\ IndexClientIdle
    /\ StoreNew
    /\ RetrieverIdle
    /\ ChunkerIdle
    /\ ValidatorIdle
    /\ CacheFileIdle
    /\ ManagerIdle

NextChunk ==
    \/ CallChunkText /\ UNCHANGED <<embedVars, indexVars, storeVars, retrVars, validVars, raceVars, mgrVars>>
    \/ PostPassKeep /\ UNCHANGED <<embedVars, indexVars, storeVars, retrVars, validVars, raceVars, mgrVars>>
    \/ PostPassResplit /\ UNCHANGED <<embedVars, indexVars, storeVars, retrVars, validVars, raceVars, mgrVars>>
    \/ ChunkTextReturn /\ UNCHANGED <<embedVars, indexVars, storeVars, retrVars, validVars, raceVars, mgrVars>>
    \/ ChunkTextDone /\ UNCHANGED <<embedVars, indexVars, storeVars, retrVars, validVars, raceVars, mgrVars>>

SpecChunk == InitChunk /\ [][NextChunk]_vars

(***************************************************************************)
(* validate_embedding driven on its own, over lists of at most MaxRuns     *)
(* runs of zeros, negative zeros and non-zero values, of lengths around D. *)
(***************************************************************************)
RunValues == {"0.0", "-0.0", "0.5"}

RunLens == {1, D - 1, D}

Vectors ==
    UNION { [1 .. n -> [v : RunValues, n : RunLens]] : n \in 0 .. MaxRuns }

CallValidate ==
    /\ va.pc = "idle"
    /\ \E embedding \in Vectors :
         va' = [VaIdle EXCEPT !.pc = "call", !.embedding = embedding]

ValidateDone ==
    /\ va.pc = "returned"
    /\ va' = VaIdle

InitValidate ==
    /\ EmbedClientInit
    /\ IndexClientIdle
    /\ StoreNew
    /\ RetrieverIdle
    /\ ChunkerIdle
    /\ ValidatorIdle
    /\ CacheFileIdle
    /\ ManagerIdle

NextValidate ==
    \/ CallValidate /\ UNCHANGED <<embedVars, indexVars, storeVars, retrVars, chunkVars, raceVars, mgrVars>>
    \/ ValidateReturn /\ UNCHANGED <<embedVars, indexVars, storeVars, retrVars, chunkVars, raceVars, mgrVars>>
    \/ ValidateDone /\ UNCHANGED <<embedVars, indexVars, storeVars, retrVars, chunkVars, raceVars, mgrVars>>

SpecValidate == InitValidate /\ [][NextValidate]_vars

(***************************************************************************)
(* The cache file of one text, shared by several processes                 *)
(* Each process embeds the same text, in the mode of embed_query or of     *)
(* embed_documents.  The file is a sequence of blocks; the block at        *)
(* position i of the JSON text of the vector of mode m is <<m, i>>, and a  *)
(* block no process wrote is Hole.  open(cache_file, 'w') empties the      *)
(* file, and json.dump reaches the file in one or more writes at the       *)
(* writer's own offset.                                                    *)
(***************************************************************************)
Hole == <<"", 0>>

\* json.dump(embedding): the blocks of the vector of mode m.
Serial(m) == [i \in 1 .. serialLen[m] |-> <<m, i>>]

\* A write of the blocks w at offset pos of a file that holds data.
Overlay(data, pos, w) ==
    [k \in 1 .. Max(Len(data), pos + Len(w)) |->
        IF pos < k /\ k <= pos + Len(w) THEN w[k - pos]
        ELSE IF k <= Len(data) THEN data[k]
        ELSE Hole]

\* The file is whole blocks of JSON texts, of which only the last closes
\* the list.
ListShaped(data) ==
    /\ data # <<>>
    /\ \A k \in DOMAIN data :
          /\ data[k] # Hole
          /\ data[k][2] = k
          /\ (k = Len(data)) <=> (data[k][2] = serialLen[data[k][1]])

\* json.load (lines 47-48): the vector a writer dumped, a list made of the
\* blocks of two vectors where their bytes join into JSON ("mixed"), or an
\* exception ("error").
LoadOutcomes(data) ==
    IF \E m \in Modes : data = Serial(m)
    THEN {data[1][1]}
    ELSE IF ListShaped(data) THEN {"mixed", "error"}
    ELSE {"error"}

\* Lines 91-93 and 141: embed_query or embed_documents is called.
StartEmbed(p) ==
    /\ proc[p].pc = "idle"
    /\ \E m \in Modes :
         proc' = [proc EXCEPT ![p] = [ProcIdle EXCEPT !.pc = "lookup",
                                                      !.mode = m]]
    /\ UNCHANGED <<disk, serialLen>>

\* Lines 35-55: _get_from_cache in a process whose memory cache is empty;
\* a file that cannot be loaded is a miss.
GetFromCache(p) ==
    /\ proc[p].pc = "lookup"
    /\ IF ~disk.exists
       THEN proc' = [proc EXCEPT ![p].pc = "compute"]
       ELSE \E o \in LoadOutcomes(disk.data) :
              proc' = [proc EXCEPT
                         ![p].pc = IF o = "error" THEN "compute" ELSE "returned",
                         ![p].got = IF o = "error" THEN "" ELSE o]
    /\ UNCHANGED <<disk, serialLen>>

\* Lines 104-108 and 190-195, then 60-65: the vector of the mode is
\* computed and saved to the memory cache.
ComputeEmbedding(p) ==
    /\ proc[p].pc = "compute"
    /\ proc' = [proc EXCEPT ![p].pc = "open", ![p].got = proc[p].mode]
    /\ UNCHANGED <<disk, serialLen>>

\* Line 70: open(cache_file, 'w') creates or empties the file.
SaveOpen(p) ==
    /\ proc[p].pc = "open"
    /\ disk' = [exists |-> TRUE, data |-> <<>>]
    /\ proc' = [proc EXCEPT ![p].pc = "write", ![p].pos = 0]
    /\ UNCHANGED serialLen

\* Lines 70-71: one write of json.dump's text, of one or more of the blocks
\* that are left; the file is closed after the last.
SaveWrite(p) ==
    /\ proc[p].pc = "write"
    /\ \E j \in 1 .. (serialLen[proc[p].mode] - proc[p].pos) :
         LET w == SubSeq(Serial(proc[p].mode), proc[p].pos + 1,
                         proc[p].pos + j)
             end == proc[p].pos + j = serialLen[proc[p].mode]
         IN /\ disk' = [disk EXCEPT
                          !.data = Overlay(disk.data, proc[p].pos, w)]
            /\ proc' = [proc EXCEPT
                          ![p].pos = @ + j,
                          ![p].wrote = end,
                          ![p].pc = IF end THEN "returned" ELSE "write"]
    /\ UNCHANGED serialLen

InitCacheFile ==
    /\ EmbedClientInit
    /\ IndexClientIdle
    /\ StoreNew
    /\ RetrieverIdle
    /\ ChunkerIdle
    /\ ValidatorIdle
    /\ \E lens \in [Modes -> 1 .. MaxBlocks] : CacheFileNew(lens)
    /\ ManagerIdle

NextCacheFile ==
    \/ \E p \in Procs : StartEmbed(p) /\ UNCHANGED <<embedVars, indexVars, storeVars, retrVars, chunkVars, validVars, mgrVars>>
    \/ \E p \in Procs : GetFromCache(p) /\ UNCHANGED <<embedVars, indexVars, storeVars, retrVars, chunkVars, validVars, mgrVars>>
    \/ \E p \in Procs : ComputeEmbedding(p) /\ UNCHANGED <<embedVars, indexVars, storeVars, retrVars, chunkVars, validVars, mgrVars>>
    \/ \E p \in Procs : SaveOpen(p) /\ UNCHANGED <<embedVars, indexVars, storeVars, retrVars, chunkVars, validVars, mgrVars>>
    \/ \E p \in Procs : SaveWrite(p) /\ UNCHANGED <<embedVars, indexVars, storeVars, retrVars, chunkVars, validVars, mgrVars>>

SpecCacheFile == InitCacheFile /\ [][NextCacheFile]_vars

(***************************************************************************)
(* vector_store_manager: initialize_vectorstore and get_vectorstore called *)
(* any number of times, in any order, each call of load_vectorstore        *)
(* returning a store or raising.                                           *)
(***************************************************************************)
\* Lines 5-8: a call of initialize_vectorstore.
CallInitializeVectorstore ==
    /\ mgr.pc = "idle" /\ mgr.calls < MaxManagerCalls
    /\ mgr' = [mgr EXCEPT !.pc = MgrBegin, !.calls = @ + 1, !.got = "",
                          !.errType = "",
                          !.noops = IF MgrBegin = "load" THEN @ ELSE @ + 1]
    /\ UNCHANGED <<embedVars, indexVars, storeVars, retrVars>>

\* Lines 10-11: load_vectorstore returns a store.
LoadVectorstoreOk ==
    /\ mgr.pc = "load"
    /\ StoreLoaded
    /\ mgr' = [mgr EXCEPT !.pc = "init_returned", !.loads = @ + 1]

\* Lines 12-14: load_vectorstore raises; the global is not assigned.
LoadVectorstoreError ==
    /\ mgr.pc = "load"
    /\ mgr' = [mgr EXCEPT !.pc = "init_raised", !.fails = @ + 1,
                          !.errType = "RuntimeError"]
    /\ UNCHANGED <<embedVars, indexVars, storeVars, retrVars>>

\* Lines 16-19: a call of get_vectorstore.
CallGetVectorstore ==
    /\ mgr.pc = "idle" /\ mgr.calls < MaxManagerCalls
    /\ mgr' = IF vectorstore = "None"
              THEN [mgr EXCEPT !.pc = "get_raised", !.calls = @ + 1,
                               !.got = "", !.errType = "RuntimeError"]
              ELSE [mgr EXCEPT !.pc = "get_returned", !.calls = @ + 1,
                               !.got = vectorstore, !.errType = ""]
    /\ UNCHANGED <<embedVars, indexVars, storeVars, retrVars>>

ManagerCallDone ==
    /\ mgr.pc \in {"init_returned", "init_raised", "get_returned",
                   "get_raised"}
    /\ mgr' = [mgr EXCEPT !.pc = "idle"]
    /\ UNCHANGED <<embedVars, indexVars, storeVars, retrVars>>

InitManager ==
    /\ InitRetrieve

NextManager ==
    \/ CallInitializeVectorstore /\ UNCHANGED <<chunkVars, validVars, raceVars>>
    \/ LoadVectorstoreOk /\ UNCHANGED <<chunkVars, validVars, raceVars>>
    \/ LoadVectorstoreError /\ UNCHANGED <<chunkVars, validVars, raceVars>>
    \/ CallGetVectorstore /\ UNCHANGED <<chunkVars, validVars, raceVars>>
    \/ ManagerCallDone /\ UNCHANGED <<chunkVars, validVars, raceVars>>

SpecManager == InitManager /\ [][NextManager]_vars

(***************************************************************************)
(* C8: if the embedding service raises a quota error on each of the first  *)
(* k attempts (k < 5) and then succeeds, embed_query has not given up      *)
(* before that attempt, returns the embedding of the text on attempt k+1,  *)
(* and the backoff wait before each retry is strictly longer than the wait *)
(* before the previous retry, for every value of the jitter.               *)
(***************************************************************************)
EqOnlyQuota == eq.quota = eq.retry /\ eq.calls > 0

C8_QuotaThenSuccess ==
    /\ (EqOnlyQuota /\ eq.retry < embed_query_max_retries)
          => eq.pc \in {"call", "returned"}
    /\ (EqOnlyQuota /\ eq.pc = "returned")
          => /\ eq.calls = eq.retry + 1
             /\ Len(eq.result) = 1
             /\ eq.result[1].src = eq.text
             /\ eq.result[1].mode = "RETRIEVAL_QUERY"
    /\ (EqOnlyQuota /\ eq.retry >= 2) => eq.wait > eq.prevWait

C8_Witness ==
    /\ eq.pc = "returned" /\ eq.quota = 2 /\ eq.retry = 2 /\ eq.calls = 3
    /\ eq.prevWait = Pow2(1) * JitterUnit + JitterUnit

(***************************************************************************)
(* C2: when upload_embeddings returns normally, every (id, vector) pair of *)
(* its input has been included in a successful upsert_datapoints call,     *)
(* also when the batch size was halved after a quota-type failure.         *)
(***************************************************************************)
C2_AllPairsUpserted ==
    up.pc = "returned" => up.sent = 0 .. (up.n - 1)

(***************************************************************************)
(* C9: upload_embeddings called with len(embeddings) # len(ids) fails with *)
(* a validation error and no remote call has been attempted, whether or    *)
(* not the client was initialized when it was called.                      *)
(***************************************************************************)
C9_MismatchFailsBeforeRemoteCall ==
    (up.pc \in {"returned", "raised"} /\ up.n # up.m)
        => /\ up.pc = "raised"
           /\ up.errType = "ValueError"
           /\ up.calls = 0
           /\ up.inits = 0

(***************************************************************************)
(* C1: after create_and_upload returns, for every position i in            *)
(* index_to_docstore_id the docstore entry doc_i holds the text whose      *)
(* embedding is the i-th vector handed to upload_embeddings, for every     *)
(* outcome of the embedding batches (a skipped batch, a reduced outer      *)
(* batch size).                                                            *)
(***************************************************************************)
C1_IndexAligned ==
    cu.pc = "returned" =>
        \A i \in DOMAIN index_to_docstore_id :
            /\ i < Len(cu.valid_embeddings)
            /\ index_to_docstore_id[i] \in DOMAIN docstore
            /\ docstore[index_to_docstore_id[i]].page_content
                   = cu.valid_embeddings[i + 1].src

(***************************************************************************)
(* C10: in create_and_upload, if embedding one batch fails persistently    *)
(* (the service keeps failing for that batch, with quota errors or with    *)
(* other errors, until every retry is used up), the build skips that batch *)
(* and goes on with the remaining batches: it never raises out of the      *)
(* embedding loop.                                                         *)
(***************************************************************************)
C10_FailedBatchIsSkipped ==
    ~(cu.pc = "raised" /\ cu.stage = "embed")

(***************************************************************************)
(* C3: when the index service returns as neighbours ids that the build     *)
(* uploaded and the store holds, invoke returns the documents stored under *)
(* exactly those ids, one for each neighbour and in the rank order of the  *)
(* neighbours.                                                             *)
(***************************************************************************)
C3_InvokeReturnsNeighbourDocuments ==
    ( /\ rt.pc \in {"returned", "raised"}
      /\ rt.neighbors # <<>>
      /\ \A i \in DOMAIN rt.neighbors : rt.neighbors[i] \in DOMAIN docstore )
    => /\ rt.pc = "returned"
       /\ Len(rt.result) = Len(rt.neighbors)
       /\ \A i \in DOMAIN rt.neighbors :
             rt.result[i] = docstore[rt.neighbors[i]]

(***************************************************************************)
(* C4: whenever the store can be queried (no create_and_upload is under    *)
(* way), every id present in the remote index is a key of the docstore and *)
(* the value of exactly one position of index_to_docstore_id; this         *)
(* includes the store initialize_vectorstore gets from load_vectorstore    *)
(* when the index is already populated.                                    *)
(***************************************************************************)
C4_RemoteIdsHaveStoreEntries ==
    cu.pc \in {"idle", "done"} =>
        \A id \in remoteIndex :
            /\ id \in DOMAIN docstore
            /\ Cardinality({i \in DOMAIN index_to_docstore_id :
                               index_to_docstore_id[i] = id}) = 1

(***************************************************************************)
(* C5: chunk_text terminates for every text and every max_tokens, also for *)
(* a text with a single word whose token estimate is over                  *)
(* MODEL_MAX_TOKENS: no call recurses without end.                         *)
(***************************************************************************)
C5_ChunkTextTerminates == ck.pc # "RecursionError"

(***************************************************************************)
(* C6: every chunk in a list that a call of chunk_text returns, the        *)
(* recursive calls included, has a token estimate of at most               *)
(* MODEL_MAX_TOKENS.                                                       *)
(***************************************************************************)
C6_ChunksWithinModelLimit ==
    /\ \A k \in DOMAIN ck.result :
          estimate_tokens(ck.result[k]) <= MODEL_MAX_TOKENS
    /\ \A d \in DOMAIN ck.stack :
          \A k \in DOMAIN ck.stack[d].final_chunks :
             estimate_tokens(ck.stack[d].final_chunks[k]) <= MODEL_MAX_TOKENS

\* A call returned two chunks that a recursive call made of a chunk whose
\* estimate was over the limit.
C6_Witness ==
    /\ ck.pc = "returned"
    /\ ck.resplits > 0
    /\ estimate_tokens(clean_text(ck.text)) > MODEL_MAX_TOKENS
    /\ Len(ck.result) = 2

(***************************************************************************)
(* C7: every chunk returned by chunk_text(text, max_tokens) has a token    *)
(* estimate of at most max_tokens, also when a single sentence or a single *)
(* word of the text is over max_tokens.                                    *)
(***************************************************************************)
C7_ChunksWithinMaxTokens ==
    ck.pc = "returned" =>
        \A k \in DOMAIN ck.result :
            estimate_tokens(ck.result[k]) <= ck.max_tokens

(***************************************************************************)
(* C11: in embed_documents, whenever an attempt for a batch fails with a   *)
(* quota error, the next attempt for that batch uses a strictly smaller    *)
(* batch size than the failed attempt, for every current batch size.       *)
(***************************************************************************)
C11_QuotaShrinksBatch ==
    (ed.pc = "call" /\ ed.failed_size > 0) => ed.batch_size < ed.failed_size

(***************************************************************************)
(* C12: after an embed_query(t) that returned a vector, every later        *)
(* embed_query(t) returns the same vector and sends no request to the      *)
(* embedding service, whatever embed operations happen in between.         *)
(***************************************************************************)
C12_SecondQueryFromCache ==
    (eq.pc = "returned" /\ eq.text \in DOMAIN eq.seen)
        => /\ eq.result[1] = eq.seen[eq.text]
           /\ eq.calls = 0

(***************************************************************************)
(* C13: every vector returned by embed_query or embed_documents and every  *)
(* vector in the embedding cache is not empty, has exactly D components    *)
(* and is not all-zero, whatever the embedding service answers.            *)
(***************************************************************************)
C13_VectorsWellFormed ==
    /\ \A t \in DOMAIN cache : validate_embedding(cache[t])
    /\ \A t \in DOMAIN fileCache : validate_embedding(fileCache[t])
    /\ eq.pc = "returned" => validate_embedding(eq.result[1])
    /\ ed.pc = "returned" =>
          \A i \in DOMAIN ed.result : validate_embedding(ed.result[i])

(***************************************************************************)
(* C14: validate_embedding returns true exactly when the vector is not     *)
(* empty, has exactly D components and has at least one non-zero           *)
(* component; a vector of another length and an all-zero vector are        *)
(* rejected.  The shape the rest of the model keeps of a vector gives the  *)
(* same verdict.                                                           *)
(***************************************************************************)
C14_ValidateExactly ==
    va.pc = "returned" =>
        /\ va.result = ( /\ va.embedding # <<>>
                         /\ VecLen(va.embedding) = D
                         /\ \E i \in DOMAIN va.embedding :
                               va.embedding[i].v \notin {"0.0", "-0.0"} )
        /\ va.result = validate_embedding(ShapeOf(va.embedding))

\* A vector of D components, all zero but the last, was accepted.
C14_Witness ==
    /\ va.pc = "returned"
    /\ va.result
    /\ va.embedding = <<[v |-> "0.0", n |-> D - 1], [v |-> "0.5", n |-> 1]>>

(***************************************************************************)
(* C15: of two candidate chunks where one is a substring of the other and  *)
(* the length of the shorter is at least 0.7 of the length of the longer,  *)
(* at most one is in the list chunk_text returns.                          *)
(***************************************************************************)
C15_NearDuplicatesRemoved ==
    ck.pc = "returned" =>
        \A i, j \in DOMAIN ck.result :
            ( /\ i < j
              /\ \/ IsSubstring(Runs(ck.result[i]), Runs(ck.result[j]))
                 \/ IsSubstring(Runs(ck.result[j]), Runs(ck.result[i])) )
            => 10 * Min(StrLen(ck.result[i]), StrLen(ck.result[j]))
                 < 7 * Max(StrLen(ck.result[i]), StrLen(ck.result[j]))

(***************************************************************************)
(* C16: no chunk in the list chunk_text returns is shorter, in characters, *)
(* than MIN_CONTENT_LENGTH, the chunks that come from a recursive call of  *)
(* the post-pass included.                                                 *)
(***************************************************************************)
C16_ChunksAtLeastMinimum ==
    ck.pc = "returned" =>
        \A k \in DOMAIN ck.result : StrLen(ck.result[k]) >= MIN_CONTENT_LENGTH

\* A call returned chunks after its primary pass had made a chunk shorter
\* than the minimum.
C16_Witness ==
    /\ ck.pc = "returned"
    /\ ck.result # <<>>
    /\ \E k \in DOMAIN PrimaryChunks(ck.text, ck.max_tokens) :
          StrLen(PrimaryChunks(ck.text, ck.max_tokens)[k]) < MIN_CONTENT_LENGTH

(***************************************************************************)
(* C17: if no embedding survives validation, create_and_upload raises a    *)
(* ValueError, having called upload_embeddings not once and leaving        *)
(* docstore and index_to_docstore_id as they were before the call; a build *)
(* that goes on to the upload has at least one embedding, and only valid   *)
(* ones.                                                                   *)
(***************************************************************************)
C17_NoValidEmbeddingRaises ==
    /\ (cu.pc = "raised" /\ cu.stage = "validate")
          => /\ cu.errType = "ValueError"
             /\ up = UpIdle
             /\ remoteIndex = {}
             /\ <<docstore, index_to_docstore_id>> = cu.before
    /\ (cu.pc \in {"upload", "returned"} \/ cu.stage = "upload")
          => /\ cu.valid_embeddings # <<>>
             /\ \A k \in DOMAIN cu.valid_embeddings :
                   /\ cu.valid_embeddings[k].len = D
                   /\ cu.valid_embeddings[k].nz > 0

\* The build raised at the validation after the service had answered every
\* text with a malformed vector.
C17_Witness ==
    /\ cu.pc = "raised"
    /\ cu.stage = "validate"
    /\ cu.embeddings # <<>>

(***************************************************************************)
(* C18: embed_documents never returns a list shorter than its input or     *)
(* with a missing entry: the list it returns has the embedding of each     *)
(* text at the position of the text, and the call raises when a batch has  *)
(* used up all its attempts or the service answered with fewer vectors     *)
(* than the texts sent.                                                    *)
(***************************************************************************)
C18_NoPartialResult ==
    /\ ed.pc = "returned"
          => /\ Len(ed.result) = Len(ed.texts)
             /\ \A i \in DOMAIN ed.texts : ed.result[i].src = ed.texts[i]
    /\ ed.retry = embed_documents_max_retries => ed.pc = "raised"
    /\ ed.short => ed.pc \in {"call", "raised"}

\* The call raised after the service had answered one batch with a vector
\* for one text and none for another.
C18_Witness ==
    /\ ed.pc = "raised"
    /\ ed.short
    /\ ed.retry = 0
    /\ \E i \in DOMAIN ed.all : ed.all[i] # <<>>

(***************************************************************************)
(* C19: in embed_query and embed_documents, when every failure is a        *)
(* non-quota error, the number of remote attempts made before the error is *)
(* propagated is strictly smaller than the ceiling of attempts that        *)
(* applies to quota errors.                                                *)
(***************************************************************************)
C19_FewerAttemptsOnOtherErrors ==
    /\ (eq.pc = "raised" /\ eq.quota = 0)
          => eq.calls < embed_query_max_retries
    /\ (ed.pc = "raised" /\ ed.retry > 0 /\ ed.quota = 0)
          => ed.retry < embed_documents_max_retries

(***************************************************************************)
(* C20: if a batch of upload_embeddings fails on all 5 attempts, the call  *)
(* raises, no upsert has been issued for a later batch, and the batches    *)
(* upserted before it are still in the remote index.                       *)
(***************************************************************************)
C20_FailedBatchAbortsUpload ==
    /\ up.retry = upload_max_retries
          => /\ up.pc = "raised"
             /\ up.errType = "Exception"
    /\ (up.pc = "raised" /\ up.retry = upload_max_retries)
          => /\ \A p \in up.sent : p < up.i
             /\ \A p \in up.sent : DocId(p) \in remoteIndex
             /\ up.total_uploaded = Cardinality(up.sent)

\* The first batch was upserted and the second failed five times.
C20_Witness ==
    /\ up.pc = "raised"
    /\ up.retry = upload_max_retries
    /\ up.i > 0
    /\ up.sent # {}
    /\ \A p \in up.sent : DocId(p) \in remoteIndex

(***************************************************************************)
(* C21: every batch embed_documents sends to the service has a summed      *)
(* token estimate of at most 8000 or is a single text; during one call the *)
(* batch size never increases and never drops below 1.                     *)
(***************************************************************************)
C21_BatchWithinBudget ==
    [][ /\ ed'.pc = "call"
             => /\ \/ SumTokens(ed'.uncached, ed'.start_index, ed'.end_index)
                         <= embed_documents_token_budget
                      \/ ed'.end_index - ed'.start_index = 1
                /\ ed'.batch_size >= 1
        /\ (ed.pc = "call" /\ ed'.pc = "call")
             => ed'.batch_size <= ed.batch_size ]_vars

\* Two texts over the budget together are about to be sent one at a time.
C21_Witness ==
    /\ ed.pc = "call"
    /\ Len(ed.uncached) = 2
    /\ SumTokens(ed.uncached, 0, 2) > embed_documents_token_budget
    /\ ed.batch_size = 1
    /\ ed.retry = 0

(***************************************************************************)
(* C22: an embed_query or embed_documents call that is served entirely     *)
(* from the cache returns without a request to the service and without     *)
(* going through the rate limiter: _request_count, which the limiter       *)
(* advances together with _last_request_time, is left unchanged.           *)
(***************************************************************************)
C22_CacheHitBypassesLimiter ==
    [][ /\ (eq.pc = "idle" /\ eq'.pc # "idle" /\ CacheHit(eq'.text))
             => /\ eq'.pc = "returned"
                /\ eq'.calls = 0
                /\ eq'.result = CacheLookup(eq'.text)
                /\ request_count' = request_count
        /\ (ed.pc = "idle" /\ ed'.pc # "idle"
               /\ \A i \in DOMAIN ed'.texts : CacheHit(ed'.texts[i]))
             => /\ ed'.pc = "returned"
                /\ ~ed'.remote
                /\ request_count' = request_count
        /\ (eq.pc = "returned" /\ eq.calls = 0) => request_count' = request_count
        /\ (ed.pc = "returned" /\ ~ed.remote) => request_count' = request_count
      ]_vars

\* An embed_query returned from the cache after an earlier call had reached
\* the service.
C22_Witness ==
    /\ eq.pc = "returned"
    /\ eq.calls = 0
    /\ request_count > 0

(***************************************************************************)
(* C23: a retriever obtained through as_retriever(search_kwargs={'k': n})  *)
(* is constructed: the constructor does not raise.                         *)
(***************************************************************************)
C23_RetrieverConstructed == rt.pc # "ctor_raised"

(***************************************************************************)
(* C24: when find_neighbors answers with an empty result, search returns   *)
(* the empty list without another request and without raising, and invoke  *)
(* returns the empty list of documents; when the embedding of the query or *)
(* the search fails for good, invoke raises: it returns only after a valid *)
(* query embedding and an answered search.                                 *)
(***************************************************************************)
C24_Settled ==
    /\ se.pc = "returned" => (se.calls = se.retry + 1 /\ se.retry < search_max_retries)
    /\ se.retry = search_max_retries => se.pc = "raised"
    /\ rt.retry_count = invoke_max_retries => rt.pc = "raised"
    /\ rt.search_count = invoke_search_retries => rt.pc = "raised"
    /\ rt.pc = "returned"
          => /\ rt.query_embedding # <<>>
             /\ rt.query_embedding[1].len = D
             /\ rt.query_embedding[1].nz > 0
             /\ Len(rt.result) = Len(rt.neighbors)

\* C24, with the step of invoke that takes the empty answer of search.
C24_EmptyIsNotAFailure ==
    [][ /\ C24_Settled'
        /\ (rt.pc = "search" /\ se.pc = "returned" /\ se.result = <<>>)
              => (rt'.pc = "returned" /\ rt'.result = <<>>) ]_vars

\* invoke returned no document from an index that holds datapoints.
C24_Witness ==
    /\ rt.pc = "returned"
    /\ rt.result = <<>>
    /\ remoteIndex # {}

(***************************************************************************)
(* C25: a validation failure is not followed by a retry of the operation:  *)
(* an invalid query embedding makes invoke raise ValueError with no search *)
(* request and no further embedding request, and a call of                 *)
(* upload_embeddings with different numbers of ids and of vectors raises   *)
(* with no upsert attempted (ValueError, unless the initialize that comes  *)
(* before the comparison has failed).                                      *)
(***************************************************************************)
C25_ValidationFailsFast ==
    /\ (rt.query_embedding # <<>>
          /\ ~(rt.query_embedding[1].len = D /\ rt.query_embedding[1].nz > 0))
          => /\ rt.pc = "raised"
             /\ rt.errType = "ValueError"
             /\ rt.search_count = 0
             /\ se = SeIdle
             /\ eq.pc = "idle"
    /\ (up.pc \in {"upsert", "returned", "raised"} /\ up.n # up.m)
          => /\ up.pc = "raised"
             /\ \/ up.errType = "ValueError"
                \/ up.inits = initialize_max_retries
             /\ up.calls = 0
             /\ up.sent = {}

\* invoke has raised on an invalid query embedding, and a direct upload of
\* one vector with two ids has raised.
C25_Witness ==
    /\ rt.pc = "raised"
    /\ rt.errType = "ValueError"
    /\ rt.query_embedding # <<>>
    /\ rt.query_embedding[1].nz = 0
    /\ up.pc = "raised"
    /\ up.n # up.m
    /\ up.errType = "ValueError"

\* C26: once initialize has succeeded, no step changes a field of the
\* client, no attempt to connect is made again, a direct call of initialize
\* returns at once without a remote call, and upload_embeddings and search
\* do not wait for initialize; initialized is true only where the index
\* handle and the endpoint handle are both set.
C26_InitializeIdempotent ==
    [][ /\ vsm'.initialized => (vsm'.index /\ vsm'.index_endpoint)
        /\ vsm.initialized =>
              /\ vsm' = vsm
              /\ ini'.pc # "call"
              /\ ini.pc = "idle" =>
                    (ini'.pc \in {"idle", "returned"} /\ ini'.calls = 0)
              /\ up.pc # "init" => up'.pc # "init"
              /\ se.pc # "init" => se'.pc # "init" ]_vars

C26_Witness ==
    /\ vsm.initialized
    /\ ini.pc = "returned" /\ ini.calls = 0
    /\ rt.pc = "returned"
    /\ remoteIndex # {}

\* C27: a text that is in the in-memory cache stays in it with the same
\* value at every step of embed_query and of embed_documents.
C27_MemoryCacheStable ==
    [][ \A t \in DOMAIN cache :
          t \in DOMAIN cache' /\ cache'[t] = cache[t] ]_vars

\* C28: when every process that embeds the text has ended, the cache file
\* holds the JSON text of the vector one of its writers dumped, and the
\* vector a process has loaded from the file is the vector of one of the
\* two modes.
C28_ConcurrentWritesHarmless ==
    /\ ((\A p \in Procs : proc[p].pc = "returned") /\ disk.exists)
          => \E p \in Procs : proc[p].wrote /\ disk.data = Serial(proc[p].mode)
    /\ \A p \in Procs : proc[p].pc = "returned" => proc[p].got \in Modes

\* C29: get_vectorstore returns only a store that was loaded and raises
\* while none was; over all the calls of initialize_vectorstore the store
\* is loaded at most once, later calls load nothing, and a call whose load
\* failed raises RuntimeError and leaves the global unset.
C29_StoreLoadedOnce ==
    /\ mgr.loads <= 1
    /\ (mgr.loads = 0) <=> (vectorstore = "None")
    /\ mgr.pc = "get_returned" => (mgr.got = "VectorStore" /\ mgr.loads = 1)
    /\ mgr.pc = "get_raised" => (mgr.loads = 0 /\ mgr.errType = "RuntimeError")
    /\ mgr.pc = "init_raised"
          => (vectorstore = "None" /\ mgr.errType = "RuntimeError")
    /\ mgr.pc = "load" => vectorstore = "None"

C29_Witness ==
    /\ mgr.pc = "get_returned"
    /\ mgr.fails = 1 /\ mgr.loads = 1 /\ mgr.noops = 1

\* C30: the vector embed_query returns for a text was produced by a
\* RETRIEVAL_QUERY request for that text, and every vector embed_documents
\* returns was produced by a RETRIEVAL_DOCUMENT request for its text.
C30_ModeOfReturnedVector ==
    /\ eq.pc = "returned"
          => (eq.result[1].mode = "RETRIEVAL_QUERY" /\ eq.result[1].src = eq.text)
    /\ ed.pc = "returned"
          => \A i \in DOMAIN ed.result :
                /\ ed.result[i].mode = "RETRIEVAL_DOCUMENT"
                /\ ed.result[i].src = ed.texts[i]

\* C31: in create_and_upload each outer batch starts no later than the
\* text at which the batch handed to embed_documents before it ended, and
\* the last batch handed to embed_documents ends at the last filtered text.
C31_BatchesCoverTexts ==
    [][ /\ (cu.pc = "embed" /\ cu'.pc = "embed" /\ cu'.i # cu.i)
              => cu'.i <= cu.end_idx
        /\ (cu.pc = "embed" /\ cu'.pc \in {"upload", "raised"}
                           /\ cu'.stage # "embed")
              => cu.end_idx = Len(cu.valid_texts) ]_vars

\* C32: when embed_documents returns and every request was answered with
\* one vector for each input, the result has one vector for each text, the
\* i-th is an embedding of texts[i], and it is the vector the cache holds
\* for that text.
C32_OneVectorPerText ==
    (ed.pc = "returned" /\ ~ed.short)
       => /\ Len(ed.result) = Len(ed.texts)
          /\ \A i \in 1 .. Len(ed.texts) :
                /\ ed.result[i].src = ed.texts[i]
                /\ ed.texts[i] \in DOMAIN cache
                /\ ed.result[i] = cache[ed.texts[i]]

C32_Witness ==
    /\ ed.pc = "returned" /\ ed.remote /\ ~ed.short
    /\ Len(ed.texts) = 2 /\ Len(ed.uncached) = 1
    /\ ed.texts[1] # ed.texts[2]
    /\ ed.batch_size < embed_documents_batch_size

\* C33: during one invoke the remote embedding requests made so far, by the
\* calls of embed_query that raised and by the call in progress, are at
\* most 5, and the find_neighbors requests made so far, by the calls of
\* search that raised and by the call in progress, are at most 3.
C33_RequestsWithinCeilings ==
    /\ rt.pc = "embed"
          => rt.embed_requests + eq.calls <= embed_query_max_retries
    /\ rt.pc = "search"
          => rt.find_requests + se.calls <= search_max_retries

\* C34: embed_query makes at most 5 remote calls and has raised once 5 have
\* failed; embed_documents requests a batch again only while fewer than 5
\* requests for it have failed; search makes at most 3 find_neighbors calls
\* and has raised once 3 have failed; upload_embeddings upserts a batch
\* again only while fewer than 5 upserts of it have failed.
C34_BoundedAttempts ==
    /\ eq.calls <= embed_query_max_retries
    /\ eq.pc = "call" => eq.calls < embed_query_max_retries
    /\ eq.retry = embed_query_max_retries => eq.pc = "raised"
    /\ ed.retry <= embed_documents_max_retries
    /\ ed.pc = "call" => ed.retry < embed_documents_max_retries
    /\ se.calls <= search_max_retries
    /\ se.pc = "find" => se.calls < search_max_retries
    /\ se.retry = search_max_retries => se.pc = "raised"
    /\ up.retry <= upload_max_retries
    /\ up.pc = "upsert" => up.retry < upload_max_retries

C34_Witness ==
    /\ se.pc = "raised" /\ se.calls = search_max_retries
    /\ remoteIndex # {}

\* C35: between the operations of one VectorStore, after any number of
\* calls of create_and_upload, index_to_docstore_id maps each of its
\* positions i to doc_i, doc_i is in the docstore, and every id of the
\* docstore is doc_i for a position i of the mapping.
C35_MappingMatchesDocstore ==
    cu.pc \in {"idle", "done", "returned", "raised"}
       => /\ \A i \in DOMAIN index_to_docstore_id :
                /\ index_to_docstore_id[i] = DocId(i)
                /\ DocId(i) \in DOMAIN docstore
          /\ \A d \in DOMAIN docstore :
                \E i \in DOMAIN index_to_docstore_id : d = DocId(i)

C35_Witness ==
    /\ cu.pc = "returned"
    /\ cu.before[1] # EmptyMap
    /\ Len(cu.final_texts) < Cardinality(DOMAIN docstore)

\* C36: when chunk_text returns, no two chunks of the result are such that
\* one is a substring of the other with more than 0.7 of its length, and
\* the result is the candidate list without some of its chunks, in the
\* order of the candidates, where every chunk left out is shorter than 100
\* characters or is in that relation with a kept chunk that comes before it.
C36_NearDuplicate(a, b) ==
    /\ \/ IsSubstring(Runs(a), Runs(b))
       \/ IsSubstring(Runs(b), Runs(a))
    /\ 10 * Min(StrLen(a), StrLen(b)) > 7 * Max(StrLen(a), StrLen(b))

C36_Kept(F, K) ==
    LET pos == SelectSeq([k \in 1 .. Len(F) |-> k], LAMBDA k : k \in K)
    IN [k \in 1 .. Len(pos) |-> F[pos[k]]]

C36_DeduplicationSound ==
    [][ (ck.pc = "run" /\ ck'.pc = "returned") =>
          LET F == ck.stack[1].final_chunks
              R == ck'.result
          IN /\ \A i, j \in DOMAIN R : i < j => ~C36_NearDuplicate(R[i], R[j])
             /\ \E K \in SUBSET DOMAIN F :
                   /\ R = C36_Kept(F, K)
                   /\ \A i \in DOMAIN F \ K :
                         \/ StrLen(F[i]) < min_chunk_length
                         \/ \E j \in K : j < i /\ C36_NearDuplicate(F[i], F[j]) ]_vars

C36_Witness ==
    /\ ck.pc = "returned"
    /\ Len(ck.text) = 2 /\ Len(ck.result) = 1
    /\ StrLen(<<ck.text[1]>>) >= min_chunk_length
    /\ StrLen(<<ck.text[2]>>) >= min_chunk_length
    /\ ck.text[1].sep = "\n\n"
    /\ ck.max_tokens = 25

\* C37: in every retry loop, once the last permitted attempt has failed the
\* operation fails without performing another backoff wait first.  For
\* embed_query: the step in which the call fails (pc goes from "call" to
\* "raised") performs no wait, so the record of the waits is left as it was.
C37_NoWaitAfterLastAttempt ==
    [][(eq.pc = "call" /\ eq'.pc = "raised")
         => (eq'.wait = eq.wait /\ eq'.prevWait = eq.prevWait)]_vars

\* C38: during upload_embeddings the batch size stays between 10 and 100,
\* never increases, is reduced only in response to a quota-type failure,
\* and no upsert call carries more datapoints than the batch size in
\* effect.  In a state with pc = "upsert" the next upsert call carries the
\* datapoints at the positions up.i .. up.batch_end - 1.
C38_BatchSizeDiscipline ==
    [][up.pc = "upsert" =>
         /\ upload_min_batch_size <= up.batch_size
         /\ up.batch_size <= upload_batch_size
         /\ up.batch_end - up.i <= up.batch_size
         /\ upload_min_batch_size <= up'.batch_size
         /\ up'.batch_size <= up.batch_size
         /\ up'.batch_size < up.batch_size =>
              /\ up'.calls = up.calls + 1
              /\ up'.retry = up.retry + 1
              /\ up'.total_uploaded = up.total_uploaded
              /\ IsQuotaUpload(up'.error_str)]_vars

\* The batch size has been halved down to its minimum by quota-type
\* failures of the first batch, and in a later batch a non-quota failure
\* has left it as it was.
C38_Witness ==
    /\ up.pc = "upsert"
    /\ up.batch_size = upload_min_batch_size
    /\ up.batch_end > up.i
    /\ up.i > 0
    /\ up.retry > 0
    /\ ~IsQuotaUpload(up.error_str)

====
